---- MODULE Spec2Model ----
(***************************************************************************)
(* A model of the audio engine of audio_playground.py (class AudioEngine,  *)
(* the event loop of main() and the parameter writes of the interactive    *)
(* objects).                                                               *)
(*                                                                         *)
(* Numbers.  The program computes in IEEE floating point.  The model keeps *)
(* every number as an integer count of a fixed unit:                       *)
(*   - positions and rates in 1/POS_UNIT of a frame,                       *)
(*   - pitch and speed_mult in 1/RATE_UNIT,                                *)
(*   - the other control parameters in 1/PARAM_UNIT,                       *)
(*   - samples in 1/FULL_SCALE of full scale.                              *)
(* The position path (Python floats and numpy float64) is rounded the way  *)
(* binary floating point rounds, to MANT_BITS significant bits, round half *)
(* to even (operator Fl).  The sample path (numpy float32) keeps the three *)
(* non-finite values: a magnitude above F_MAX overflows to an infinity     *)
(* and inf - inf, inf * 0 give NaN.                                        *)
(***************************************************************************)
EXTENDS Integers, Sequences, FiniteSets, TLC

(* ------------------------------------------------------------------ *)
(* Bounds of the model                                                *)
(* ------------------------------------------------------------------ *)
N_FRAMES == 5      \* frames of the loaded file (self.n)
BLOCK == 2         \* frames per callback (BLOCK = 1024 in the program)
D1_LEN == 2        \* first echo tap, in frames (int(SR * 0.35))
D2_LEN == 3        \* second echo tap, in frames (int(SR * 0.65))
MANT_BITS == 5     \* significant bits of a float (53 in the program)
F_MAX == 16000     \* largest finite sample magnitude (float32 max)
BAR_W == 4         \* width of the seek bar in pixels (WIDTH - 60)
BAR_X == 1         \* left edge of the seek bar (30)
BAR_Y == 1         \* top edge of the seek bar (HEIGHT - 60)
BAR_H == 1         \* height of the seek bar (45)
MAX_BLOCKS == 3    \* callbacks the host makes in one run
GRID_WIDTH == 4    \* cells horizontally (GRID_WIDTH = 30 in snake.py)
GRID_HEIGHT == 2   \* cells vertically (GRID_HEIGHT = 20 in snake.py)

(* ------------------------------------------------------------------ *)
(* Units                                                              *)
(* ------------------------------------------------------------------ *)
POS_UNIT == 16
RATE_UNIT == 4
PARAM_UNIT == 1000
FULL_SCALE == 1000

Abs(x) == IF x < 0 THEN -x ELSE x
Min(a, b) == IF a < b THEN a ELSE b
Max(a, b) == IF a > b THEN a ELSE b
Sgn(x) == IF x < 0 THEN -1 ELSE IF x > 0 THEN 1 ELSE 0

\* np.clip(x, lo, hi) / max(lo, min(hi, x)) on finite numbers
Clip(x, lo, hi) == Max(lo, Min(hi, x))

\* a / b rounded to the nearest integer, half to even (b > 0)
RoundDiv(a, b) ==
    LET q == a \div b
        r == a % b
    IN  IF 2 * r < b THEN q
        ELSE IF 2 * r > b THEN q + 1
        ELSE IF q % 2 = 0 THEN q ELSE q + 1

\* a * k / d truncated towards zero (d > 0)
MulDiv(a, k, d) ==
    LET p == a * k
    IN  IF p >= 0 THEN p \div d ELSE -((-p) \div d)

(* ------------------------------------------------------------------ *)
(* Floating point on the position path                                *)
(* ------------------------------------------------------------------ *)
RECURSIVE Ulp(_)
\* spacing of the floats around magnitude a (in units): 1 below 2^MANT_BITS
Ulp(a) == IF a < 2 ^ MANT_BITS THEN 1 ELSE 2 * Ulp(a \div 2)

\* the float nearest to x
Fl(x) ==
    LET a == Abs(x)
        s == Ulp(a)
    IN  Sgn(x) * s * RoundDiv(a, s)

\* C fmod(x, m): exact, with the sign of x (m > 0)
FMod(x, m) == IF x >= 0 THEN x % m ELSE -((-x) % m)

\* Python's and numpy's float x % m for m > 0: fmod, and a negative
\* remainder is moved up by adding m, in floating point
PyMod(x, m) ==
    LET r == FMod(x, m)
    IN  IF r < 0 THEN Fl(r + m) ELSE r

(* ------------------------------------------------------------------ *)
(* Floating point on the sample path (float32 with inf and nan)       *)
(* ------------------------------------------------------------------ *)
P_INF == F_MAX + 1
N_INF == -(F_MAX + 1)
NAN == F_MAX + 2

IsNaN(x) == x = NAN
IsInf(x) == x = P_INF \/ x = N_INF
IsFinite(x) == ~IsNaN(x) /\ ~IsInf(x)

\* a finite result, overflowing to an infinity above F_MAX
SOver(x) == IF x > F_MAX THEN P_INF ELSE IF x < -F_MAX THEN N_INF ELSE x

\* a + b
SAdd(a, b) ==
    IF IsNaN(a) \/ IsNaN(b) THEN NAN
    ELSE IF IsInf(a) /\ IsInf(b) THEN (IF a = b THEN a ELSE NAN)
    ELSE IF IsInf(a) THEN a
    ELSE IF IsInf(b) THEN b
    ELSE SOver(a + b)

\* a * (k / d) for a finite factor k / d (d > 0)
SScale(a, k, d) ==
    IF IsNaN(a) THEN NAN
    ELSE IF IsInf(a) THEN
        (IF k = 0 THEN NAN ELSE IF (a > 0) = (k > 0) THEN P_INF ELSE N_INF)
    ELSE SOver(MulDiv(a, k, d))

\* np.clip(a, lo, hi): minimum and maximum hand a nan through
SClip(a, lo, hi) ==
    IF IsNaN(a) THEN NAN
    ELSE IF a > hi THEN hi ELSE IF a < lo THEN lo ELSE a

\* np.tanh: odd, monotone, inside (-1, 1), tanh(+-inf) = +-1, tanh(nan) = nan
STanh(a) ==
    IF IsNaN(a) THEN NAN
    ELSE IF a = P_INF THEN FULL_SCALE
    ELSE IF a = N_INF THEN -FULL_SCALE
    ELSE MulDiv(a, FULL_SCALE, FULL_SCALE + Abs(a))

\* stereo frames <<left, right>> and blocks of them
FAdd(f, g) == <<SAdd(f[1], g[1]), SAdd(f[2], g[2])>>
FScale(f, k, d) == <<SScale(f[1], k, d), SScale(f[2], k, d)>>
ZeroFrame == <<0, 0>>
ZeroBlock(n) == [i \in 1..n |-> ZeroFrame]
Chan(c, ch) == [i \in 1..Len(c) |-> c[i][ch]]
ColumnStack(l, r) == [i \in 1..Len(l) |-> <<l[i], r[i]>>]

(* ------------------------------------------------------------------ *)
(* Program constants                                                  *)
(* ------------------------------------------------------------------ *)
SR == 44100              \* sample rate
NORM_UNIT == 10000       \* unit of the normalised cutoff and of filter gains
PITCH_MIN == 1           \* 0.25 in 1/RATE_UNIT
PITCH_MAX == 16          \* 4.0
SPEED_MIN == 1           \* 0.25
SPEED_MAX == 12          \* 3.0
BYPASS_CUTOFF == 970     \* fc < 0.97 filters
NORM_EPS == 20           \* abs(norm - last_norm) > 0.002
NORM_MAX == 9900         \* min(..., 0.99)
NO_NORM == -10000        \* the sentinel -1.0 of _last_norm
DIST_MIN == 10           \* di > 0.01
MIX_MIN == 5             \* mix > 0.005
PAN_MIN == 10            \* abs(pan) > 0.01
FEEDBACK == 550          \* wet * 0.55
TAP2_GAIN == 700         \* mix * 0.7
DRIVE == 25              \* 1 + di * 25

\* The echo ring at the size of the program. BLOCK = 1024.
BLOCK_SIZE == 1024
\* int(SR * 0.35): the double 0.35 lies below 35/100, the product is the
\* double below 15435 and int() truncates it to 15434
Tap1Frames == (SR * 35 - 1) \div 100
\* int(SR * 0.65): the product rounds to the double 28665.0
Tap2Frames == (SR * 65) \div 100
\* a ring of the second tap and half a block
RingFramesTight == Tap2Frames + BLOCK_SIZE \div 2
\* buf_len = self._d2_len * 3 + BLOCK
RingFrames == Tap2Frames * 3 + BLOCK_SIZE

\* a ring of twice the second tap
BufLenShort == D2_LEN * 2 + BLOCK

\* the echo ring: buf_len = _d2_len * 3 + BLOCK
BufLen == D2_LEN * 3 + BLOCK

(* ------------------------------------------------------------------ *)
(* _cb, lines 90-108: snapshot of the rate, resampled read, advance   *)
(* ------------------------------------------------------------------ *)
\* p = float(np.clip(self.pitch, 0.25, 4.0))
SnapPitch(pitchv) == Clip(pitchv, PITCH_MIN, PITCH_MAX)
\* a speed that reaches the rate as it was stored
SnapSpeedOpen(speedv) == speedv

\* spd = float(np.clip(self.speed_mult, 0.25, 3.0))
SnapSpeed(speedv) == Clip(speedv, SPEED_MIN, SPEED_MAX)
\* pan = float(np.clip(self.pan, -1, 1))
SnapPan(panv) == Clip(panv, -PARAM_UNIT, PARAM_UNIT)
\* v, fc, em, di = float(self.volume), float(self.cutoff), ...
SnapVolume(vv) == vv
SnapCutoff(cv) == cv
SnapEcho(ev) == ev
SnapDist(dv) == dv

\* rate = p * spd * (-1 if rev else 1), in 1/POS_UNIT frames per frame
Rate(p, spd, rev) ==
    Fl(p * spd * (POS_UNIT \div (RATE_UNIT * RATE_UNIT))) * (IF rev THEN -1 ELSE 1)

\* t = np.arange(frames) * rate + self.pos ; t %= self.n   (element i, from 0)
ReadTime(posv, rate, i, n) == PyMod(Fl(Fl(i * rate) + posv), n * POS_UNIT)
\* i0 = t.astype(np.intp) % self.n
Index0(t, n) == (t \div POS_UNIT) % n
\* a second index that stays on the last frame instead of wrapping
Index1Stay(i0, n) == Min(i0 + 1, n - 1)

\* i1 = (i0 + 1) % self.n
Index1(i0, n) == (i0 + 1) % n
\* frac = t - np.floor(t)
Frac(t) == t % POS_UNIT

\* c = self.data[i0] * (1 - frac) + self.data[i1] * frac
Resample(d, posv, rate, frames) ==
    [k \in 1..frames |->
        LET t == ReadTime(posv, rate, k - 1, Len(d))
            i0 == Index0(t, Len(d))
            i1 == Index1(i0, Len(d))
            fr == Frac(t)
        IN  FAdd(FScale(d[i0 + 1], POS_UNIT - fr, POS_UNIT),
                 FScale(d[i1 + 1], fr, POS_UNIT))]

\* line 107 on a buffer without frames: self.data[i0] raises IndexError
\* (the modulo by zero of lines 103-105 only warns and leaves index 0)
ResampleRaises(d) == Len(d) = 0

\* an advance that is not brought back into the file
AdvancePosNoWrap(posv, rate, frames, n) == Fl(posv + Fl(frames * rate))

\* progress: self.pos / self.n if self.n else 0, in 1/(POS_UNIT * POS_UNIT)
Progress(posv, n) ==
    IF n # 0 THEN Fl(RoundDiv(posv * POS_UNIT * POS_UNIT, n * POS_UNIT)) ELSE 0

\* self.pos = float((self.pos + frames * rate) % self.n)
AdvancePos(posv, rate, frames, n) ==
    PyMod(Fl(posv + Fl(frames * rate)), n * POS_UNIT)

(* ------------------------------------------------------------------ *)
(* _cb, lines 110-128: the low-pass filter                            *)
(* ------------------------------------------------------------------ *)
None == <<>>       \* Python's None for _sos, _zi_l, _zi_r

\* 40.0 * (500.0 ** fc), linear between the knots fc = 0, 0.25, .. 1
HzCurve(fc) ==
    LET q == PARAM_UNIT \div 4
        seg(a, b, lo) == a + ((b - a) * (fc - lo)) \div q
    IN  IF fc <= 0 THEN 40
        ELSE IF fc < q THEN seg(40, 189, 0)
        ELSE IF fc < 2 * q THEN seg(189, 894, q)
        ELSE IF fc < 3 * q THEN seg(894, 4229, 2 * q)
        ELSE IF fc < 4 * q THEN seg(4229, 20000, 3 * q)
        ELSE 20000

\* hz = max(40.0, 40.0 * (500.0 ** fc)) ; norm = min(hz / (SR / 2), 0.99)
NormOf(fc) ==
    Min(RoundDiv(Max(40, HzCurve(fc)) * NORM_UNIT, SR \div 2), NORM_MAX)

\* butter(4, norm, btype="low", output="sos"): two second-order sections.
\* Each section is kept as its gain g: y = g*x + (1-g)*y_prev, a stable
\* low-pass of unit DC gain whose corner rises with norm.
Butter(norm) == <<norm, norm>>

\* a memory allocated without being cleared
EmptyZi(ns) == [s \in 1..ns |-> <<1, 0>>]

\* np.zeros((ns, 2))
ZerosZi(ns) == [s \in 1..ns |-> <<0, 0>>]

\* one sample through section s and the sections after it
RECURSIVE SosSample(_, _, _, _)
SosSample(sosv, x, zi, s) ==
    IF s > Len(sosv) THEN [y |-> x, z |-> zi]
    ELSE LET g == sosv[s]
             y == SAdd(SScale(x, g, NORM_UNIT), zi[s][1])
             z1 == SAdd(SScale(y, NORM_UNIT - g, NORM_UNIT), zi[s][2])
         IN  SosSample(sosv, y, [zi EXCEPT ![s] = <<z1, 0>>], s + 1)

\* sosfilt(sos, x, zi=zi) -> (y, zf)
RECURSIVE SosFilt(_, _, _, _, _)
SosFilt(sosv, x, zi, i, acc) ==
    IF i > Len(x) THEN [y |-> acc, zf |-> zi]
    ELSE LET r == SosSample(sosv, x[i], zi, 1)
         IN  SosFilt(sosv, x, r.z, i + 1, Append(acc, r.y))

\* sosfilt raises when zi is None or has the wrong number of sections
SosFiltRaises(sosv, zi) == zi = None \/ Len(zi) # Len(sosv)

\* coefficients computed once and kept whatever the cutoff does
RecomputeLazy(norm, lastn, sosv) == sosv = None

\* coefficients computed anew in every filtered block
RecomputeAlways(norm, lastn, sosv) == TRUE

\* if abs(norm - self._last_norm) > 0.002 or self._sos is None
Recompute(norm, lastn, sosv) == Abs(norm - lastn) > NORM_EPS \/ sosv = None

\* a cascade that never allocates its memory
NeedZiNever(zi, ns) == FALSE

\* if self._zi_l is None or self._zi_l.shape[0] != ns
NeedZi(zi, ns) == zi = None \/ Len(zi) # ns

\* a filter that is applied whatever the cutoff
BypassNever(fc) == FALSE

\* if fc < 0.97: ... else: ...
Bypass(fc) == ~(fc < BYPASS_CUTOFF)

\* lines 110-128 on the block c and the filter state f = [sos, zi_l, zi_r,
\* last_norm]; the result carries the new state, the block and `raised`
FilterStage(c, fc, f) ==
    IF Bypass(fc)
    THEN [c |-> c, sos |-> f.sos, zi_l |-> None, zi_r |-> None,
          last_norm |-> NO_NORM, raised |-> FALSE]
    ELSE
      LET norm == NormOf(fc)
          rec == Recompute(norm, f.last_norm, f.sos)
          sos1 == IF rec THEN Butter(norm) ELSE f.sos
          fresh == rec /\ NeedZi(f.zi_l, Len(sos1))
          zl == IF fresh THEN ZerosZi(Len(sos1)) ELSE f.zi_l
          zr == IF fresh THEN ZerosZi(Len(sos1)) ELSE f.zi_r
          ln == IF rec THEN norm ELSE f.last_norm
      IN  IF SosFiltRaises(sos1, zl) \/ SosFiltRaises(sos1, zr)
          THEN [c |-> c, sos |-> sos1, zi_l |-> zl, zi_r |-> zr,
                last_norm |-> ln, raised |-> TRUE]
          ELSE LET l == SosFilt(sos1, Chan(c, 1), zl, 1, <<>>)
                   r == SosFilt(sos1, Chan(c, 2), zr, 1, <<>>)
               IN  [c |-> ColumnStack(l.y, r.y), sos |-> sos1,
                    zi_l |-> l.zf, zi_r |-> r.zf,
                    last_norm |-> ln, raised |-> FALSE]

(* ------------------------------------------------------------------ *)
(* _cb, lines 130-132: distortion                                     *)
(* ------------------------------------------------------------------ *)
\* if di > 0.01: c = np.tanh(c * (1 + di * 25))
Distort(c, di) ==
    IF di > DIST_MIN
    THEN [i \in 1..Len(c) |->
            <<STanh(SScale(c[i][1], PARAM_UNIT + di * DRIVE, PARAM_UNIT)),
              STanh(SScale(c[i][2], PARAM_UNIT + di * DRIVE, PARAM_UNIT))>>]
    ELSE c

(* ------------------------------------------------------------------ *)
(* _ring_read, _ring_write, _echo_process                             *)
(* ------------------------------------------------------------------ *)
\* a read that stops at the end of the buffer
RingReadToEnd(buf, start0, n) ==
    LET bl == Len(buf)
        start == start0 % bl
    IN  SubSeq(buf, start + 1, Min(start + n, bl))

\* _ring_read(start, n)
RingRead(buf, start0, n) ==
    LET bl == Len(buf)
        start == start0 % bl
    IN  IF start + n <= bl
        THEN SubSeq(buf, start + 1, start + n)
        ELSE LET f == bl - start
             IN  SubSeq(buf, start + 1, bl) \o SubSeq(buf, 1, n - f)

\* a write that stops at the end of the buffer
RingWriteToEnd(buf, wp, d) ==
    [i \in 1..Len(buf) |-> IF wp < i /\ i <= wp + Len(d) THEN d[i - wp] ELSE buf[i]]

\* _ring_write(wp, data)
RingWrite(buf, wp, d) ==
    LET n == Len(d)
        bl == Len(buf)
    IN  IF wp + n <= bl
        THEN [i \in 1..bl |-> IF wp < i /\ i <= wp + n THEN d[i - wp] ELSE buf[i]]
        ELSE LET f == bl - wp
             IN  [i \in 1..bl |->
                    IF i <= n - f THEN d[f + i]
                    ELSE IF i > wp THEN d[i - wp]
                    ELSE buf[i]]

\* if mix > 0.005
EchoActive(mix) == mix > MIX_MIN

\* wet = c + d1 * mix + d2 * (mix * 0.7)
Wet(c, d1, d2, mix) ==
    [i \in 1..Len(c) |->
        FAdd(FAdd(c[i], FScale(d1[i], mix, PARAM_UNIT)),
             FScale(d2[i], MulDiv(mix, TAP2_GAIN, PARAM_UNIT), PARAM_UNIT))]

\* a write-back that stores the wet block as it is
FeedbackUnscaled(wet) == wet

\* wet * 0.55
Feedback(wet) == [i \in 1..Len(wet) |-> FScale(wet[i], FEEDBACK, PARAM_UNIT)]

\* a first tap that reads one sample further back
Tap1PosLate(wp, bl) == (wp - D1_LEN - 1) % bl

\* rp1 = (wp - self._d1_len) % bl ; rp2 = (wp - self._d2_len) % bl
Tap1Pos(wp, bl) == (wp - D1_LEN) % bl
Tap2Pos(wp, bl) == (wp - D2_LEN) % bl

\* an echo stage that leaves the ring alone while the mix is off
EchoProcessFrozen(c, mix, e) ==
    LET n == Len(c)
        bl == Len(e.buf)
        wet == Wet(c, RingRead(e.buf, Tap1Pos(e.wp, bl), n),
                   RingRead(e.buf, Tap2Pos(e.wp, bl), n), mix)
    IN  IF EchoActive(mix)
        THEN [c |-> wet, buf |-> RingWrite(e.buf, e.wp, Feedback(wet)),
              wp |-> (e.wp + n) % bl]
        ELSE [c |-> c, buf |-> e.buf, wp |-> e.wp]

\* an echo stage whose write pointer runs past the end of the ring
EchoProcessNoWrap(c, mix, e) ==
    LET n == Len(c)
        bl == Len(e.buf)
        wet == Wet(c, RingRead(e.buf, Tap1Pos(e.wp, bl), n),
                   RingRead(e.buf, Tap2Pos(e.wp, bl), n), mix)
        w == e.wp % bl
    IN  IF EchoActive(mix)
        THEN [c |-> wet, buf |-> RingWrite(e.buf, w, Feedback(wet)),
              wp |-> e.wp + n]
        ELSE [c |-> c, buf |-> RingWrite(e.buf, w, c), wp |-> e.wp + n]

\* an echo stage that stores the dry block at wp before it reads the taps
EchoProcessWriteFirst(c, mix, e) ==
    LET n == Len(c)
        bl == Len(e.buf)
        early == RingWrite(e.buf, e.wp, c)
        wet == Wet(c, RingRead(early, Tap1Pos(e.wp, bl), n),
                   RingRead(early, Tap2Pos(e.wp, bl), n), mix)
    IN  IF EchoActive(mix)
        THEN [c |-> wet, buf |-> RingWrite(early, e.wp, Feedback(wet)),
              wp |-> (e.wp + n) % bl]
        ELSE [c |-> c, buf |-> early, wp |-> (e.wp + n) % bl]

\* _echo_process(c, mix) on the ring e = [buf, wp]
EchoProcess(c, mix, e) ==
    LET n == Len(c)
        bl == Len(e.buf)
        rp1 == Tap1Pos(e.wp, bl)
        rp2 == Tap2Pos(e.wp, bl)
        d1 == RingRead(e.buf, rp1, n)
        d2 == RingRead(e.buf, rp2, n)
        wet == Wet(c, d1, d2, mix)
    IN  IF EchoActive(mix)
        THEN [c |-> wet, buf |-> RingWrite(e.buf, e.wp, Feedback(wet)),
              wp |-> (e.wp + n) % bl]
        ELSE [c |-> c, buf |-> RingWrite(e.buf, e.wp, c),
              wp |-> (e.wp + n) % bl]

(* ------------------------------------------------------------------ *)
(* _cb, lines 137-147: pan, volume, clamp, output                     *)
(* ------------------------------------------------------------------ *)
\* a left gain that grows past unity when the pan moves left
LeftGainBoost(panv) == PARAM_UNIT - panv

\* l_g = min(1.0, 1.0 - pan) ; r_g = min(1.0, 1.0 + pan)
LeftGain(panv) == Min(PARAM_UNIT, PARAM_UNIT - panv)
RightGain(panv) == Min(PARAM_UNIT, PARAM_UNIT + panv)

\* if abs(pan) > 0.01: c[:, 0] *= l_g ; c[:, 1] *= r_g
PanStage(c, panv) ==
    IF Abs(panv) > PAN_MIN
    THEN [i \in 1..Len(c) |->
            <<SScale(c[i][1], LeftGain(panv), PARAM_UNIT),
              SScale(c[i][2], RightGain(panv), PARAM_UNIT)>>]
    ELSE c

\* c *= v
VolumeStage(c, v) == [i \in 1..Len(c) |-> FScale(c[i], v, PARAM_UNIT)]

\* np.clip(c, -1.0, 1.0, out=c)
ClipStage(c) ==
    [i \in 1..Len(c) |->
        <<SClip(c[i][1], -FULL_SCALE, FULL_SCALE),
          SClip(c[i][2], -FULL_SCALE, FULL_SCALE)>>]

\* lines 110-147 on the resampled block c with the locals v, fc, em, di,
\* pan, the filter state f and the echo ring e.  When sosfilt raises, the
\* lines after it do not run.
DspTail(c, v, fc, em, di, panv, f, e) ==
    LET fl == FilterStage(c, fc, f)
        ec == EchoProcess(Distort(fl.c, di), em, e)
        o == ClipStage(VolumeStage(PanStage(ec.c, panv), v))
    IN  IF fl.raised
        THEN [raised |-> TRUE, wrote |-> FALSE, out |-> <<>>,
              sos |-> fl.sos, zi_l |-> fl.zi_l, zi_r |-> fl.zi_r,
              last_norm |-> fl.last_norm, buf |-> e.buf, wp |-> e.wp]
        ELSE [raised |-> FALSE, wrote |-> TRUE, out |-> o,
              sos |-> fl.sos, zi_l |-> fl.zi_l, zi_r |-> fl.zi_r,
              last_norm |-> fl.last_norm, buf |-> ec.buf, wp |-> ec.wp]

(* ------------------------------------------------------------------ *)
(* The loaded file                                                    *)
(* ------------------------------------------------------------------ *)
\* self.data = raw.reshape(-1, 2) / 32768.0 : frames in [-1, 1)
ToneFrame(i) ==
    <<((i * 750 + 250) % (2 * FULL_SCALE)) - FULL_SCALE,
      ((i * 1250 + 1500) % (2 * FULL_SCALE)) - FULL_SCALE>>
Tone == [i \in 1..N_FRAMES |-> ToneFrame(i)]
Silence == [i \in 1..N_FRAMES |-> ZeroFrame]
\* a file that decodes to no frames: raw.reshape(-1, 2) of shape (0, 2)
NoFrames == <<>>

(* ------------------------------------------------------------------ *)
(* State                                                              *)
(* ------------------------------------------------------------------ *)
VARIABLES
    data,        \* AudioEngine.data: the decoded frames
    pos,         \* AudioEngine.pos, in 1/POS_UNIT frames
    playing,     \* AudioEngine.playing
    volume, pitch, cutoff, echo_mix, dist, reverse, pan, speed_mult,
    echo_buf,    \* AudioEngine._echo_buf
    echo_wp,     \* AudioEngine._echo_wp
    sos,         \* AudioEngine._sos
    zi_l, zi_r,  \* AudioEngine._zi_l, _zi_r
    last_norm,   \* AudioEngine._last_norm
    vis,         \* AudioEngine.vis
    stream,      \* AudioEngine._stream: "none", "running", "closed"
    out,         \* the host's output buffer after the last callback
    raised,      \* an exception has escaped _cb
    cb,          \* the audio thread: its place in _cb and the locals of _cb
    mainpc,      \* the main thread: "boot", "loop", "quit", "stopped"
    blocks,      \* callbacks made so far
    last,        \* the step taken last
    seekReq,     \* the position of a seek no block has started from yet, or -1
    seekOk,      \* the latest block started reading at the seek pending then, if any
    used,        \* the parameter values the stages of the latest block used
    chunk,       \* draw_waveform's local `chunk`, None outside the call
    probe,       \* a stage called on its own: its arguments and its result
    objs,        \* main's `objects`: the fields their handle() methods read
    routed,      \* the way the latest event took through the loop of main
    snake,       \* SnakeGame.snake, head first
    direction,   \* SnakeGame.direction
    next_direction,  \* SnakeGame.next_direction
    food,        \* SnakeGame.food
    score,       \* SnakeGame.score
    high_score,  \* SnakeGame.high_score
    game_over,   \* SnakeGame.game_over
    paused,      \* SnakeGame.paused
    gamepc       \* snake.py's process: "none", "run", "food", "exit"

engine == <<data, pos, playing, volume, pitch, cutoff, echo_mix, dist, reverse,
            pan, speed_mult, echo_buf, echo_wp, sos, zi_l, zi_r, last_norm, vis,
            stream>>
ui == <<objs, routed>>
snakeGame == <<snake, direction, next_direction, food, score, high_score,
               game_over, paused, gamepc>>
\* what the audio thread and the engine's methods never touch
aside == <<ui, snakeGame>>
vars == <<engine, out, raised, cb, mainpc, blocks, last, seekReq, seekOk, used,
          chunk, probe, aside>>

params == <<volume, pitch, cutoff, echo_mix, dist, reverse, pan, speed_mult>>
dspState == <<echo_buf, echo_wp, sos, zi_l, zi_r, last_norm>>
bench == <<chunk, probe>>
ghosts == <<seekReq, seekOk, used, bench, aside>>

(* ------------------------------------------------------------------ *)
(* AudioEngine.__init__                                               *)
(* ------------------------------------------------------------------ *)
InitPaused == FALSE      \* an engine constructed paused
InitPlaying == TRUE      \* self.playing = True
InitVolume == 700        \* self.volume = 0.7
InitPitch == 4           \* self.pitch = 1.0
InitCutoff == 1000       \* self.cutoff = 1.0
InitEchoMix == 0         \* self.echo_mix = 0.0
InitDist == 0            \* self.dist = 0.0
InitReverse == FALSE     \* self.reverse = False
InitPan == 0             \* self.pan = 0.0
InitSpeedMult == 4       \* self.speed_mult = 1.0

\* the fields _cb reads once per block
ParamNames == {"playing", "pitch", "speed_mult", "volume", "cutoff", "echo_mix",
               "dist", "reverse", "pan"}
NoReads == [f \in ParamNames |-> 0]
OneRead == [f \in ParamNames |-> 1]

\* the audio thread outside _cb; reads counts the reads of each field by the
\* latest call
NoLocals ==
    [pc |-> "idle", p |-> 0, spd |-> 0, v |-> 0, fc |-> 0, em |-> 0, di |-> 0,
     rev |-> FALSE, pan |-> 0, rate |-> 0, c |-> <<>>, sum |-> 0,
     reads |-> NoReads]
\* no stage has been called on its own
NoProbe == [stage |-> "none"]
NoUse == [p |-> 0, spd |-> 0, v |-> 0, fc |-> 0, em |-> 0, di |-> 0, pan |-> 0]

EngineInit(d) ==
    /\ data = d
    /\ pos = 0
    /\ playing = InitPlaying
    /\ volume = InitVolume
    /\ pitch = InitPitch
    /\ cutoff = InitCutoff
    /\ echo_mix = InitEchoMix
    /\ dist = InitDist
    /\ reverse = InitReverse
    /\ pan = InitPan
    /\ speed_mult = InitSpeedMult
    /\ echo_buf = ZeroBlock(BufLen)
    /\ echo_wp = 0
    /\ sos = None
    /\ zi_l = None
    /\ zi_r = None
    /\ last_norm = NO_NORM
    /\ vis = ZeroBlock(BLOCK)
    /\ stream = "none"

\* main's objects as their constructors leave them: nothing grabbed, the
\* space game closed, no right click counted
ObjectsInit ==
    [grab |-> {}, open |-> FALSE, over |-> FALSE, keys |-> {}, clicks |-> 0,
     chaos |-> FALSE, wobble |-> FALSE]
\* no event has been taken from the queue
NoRouting == [ev |-> None, seek |-> FALSE, offered |-> <<>>, hotkey |-> "none",
              quit |-> FALSE]
\* audio_playground.py constructs no SnakeGame
NoSnakeGame ==
    /\ snake = <<>>
    /\ direction = None
    /\ next_direction = None
    /\ food = None
    /\ score = 0
    /\ high_score = 0
    /\ game_over = FALSE
    /\ paused = FALSE
    /\ gamepc = "none"

AudioInit(d) ==
    /\ objs = ObjectsInit
    /\ routed = NoRouting
    /\ EngineInit(d)
    /\ out = ZeroBlock(BLOCK)
    /\ raised = FALSE
    /\ cb = NoLocals
    /\ mainpc = "boot"
    /\ blocks = 0
    /\ last = "init"
    /\ seekReq = -1
    /\ seekOk = TRUE
    /\ used = NoUse
    /\ chunk = None
    /\ probe = NoProbe

\* audio_playground.py after AudioEngine(filepath) on the file d
InitWith(d) == AudioInit(d) /\ NoSnakeGame

(* ------------------------------------------------------------------ *)
(* AudioEngine._cb, run by the audio thread                           *)
(* ------------------------------------------------------------------ *)
\* the host calls _cb with frames = blocksize = BLOCK while the stream runs
Frames == BLOCK
HostCalls == stream = "running" /\ ~raised /\ blocks < MAX_BLOCKS

FilterState == [sos |-> sos, zi_l |-> zi_l, zi_r |-> zi_r, last_norm |-> last_norm]
EchoRing == [buf |-> echo_buf, wp |-> echo_wp]

\* a store into the array vis already names, seen after its first frame
VisStoreInPlace(c) == [i \in 1..Len(c) |-> IF i = 1 THEN c[i] ELSE vis[i]]

\* line 147: self.vis = c.copy(), a new array bound in one store
VisStore(c) == c

\* lines 110-147 applied to the engine: the effect of r = DspTail(...)
DspEffect(r) ==
    /\ sos' = r.sos
    /\ zi_l' = r.zi_l
    /\ zi_r' = r.zi_r
    /\ last_norm' = r.last_norm
    /\ echo_buf' = r.buf
    /\ echo_wp' = r.wp
    /\ raised' = r.raised
    /\ out' = IF r.wrote THEN r.out ELSE out
    /\ vis' = IF r.wrote THEN VisStore(r.out) ELSE vis

\* a return that leaves the host's buffer as the previous call left it
PausedOutStale(frames) == out

\* lines 86-88: a paused block is out[:] = 0
PausedOut(frames) == ZeroBlock(frames)

\* a paused call that stores its silent block in vis
PausedShowsSilence ==
    /\ vis' = ZeroBlock(Frames)
    /\ UNCHANGED <<pos, dspState>>

\* lines 86-88: the return comes before any line that stores into the engine
PausedKeeps == UNCHANGED <<pos, dspState, vis>>

\* One whole call of _cb, with no step of the main thread inside it.
Cb ==
    /\ HostCalls
    /\ cb.pc = "idle"
    /\ blocks' = blocks + 1
    /\ last' = "cb"
    /\ UNCHANGED <<data, playing, params, stream, mainpc>>
    /\ IF ~playing
       THEN /\ out' = PausedOut(Frames)
            /\ PausedKeeps
            /\ UNCHANGED <<raised, cb, ghosts>>
       ELSE IF ResampleRaises(data)
       THEN /\ raised' = TRUE
            /\ UNCHANGED <<pos, dspState, vis, out, cb, ghosts>>
       ELSE LET p == SnapPitch(pitch)
                spd == SnapSpeed(speed_mult)
                v == SnapVolume(volume)
                fc == SnapCutoff(cutoff)
                em == SnapEcho(echo_mix)
                di == SnapDist(dist)
                pn == SnapPan(pan)
                rate == Rate(p, spd, reverse)
                c == Resample(data, pos, rate, Frames)
                np == AdvancePos(pos, rate, Frames, Len(data))
            IN  /\ pos' = np
                /\ DspEffect(DspTail(c, v, fc, em, di, pn, FilterState, EchoRing))
                /\ cb' = [pc |-> "idle", p |-> p, spd |-> spd, v |-> v, fc |-> fc,
                          em |-> em, di |-> di, rev |-> reverse, pan |-> pn,
                          rate |-> 0, c |-> <<>>, sum |-> 0, reads |-> OneRead]
                /\ seekOk' = (seekReq = -1 \/ pos = seekReq)
                /\ seekReq' = -1
                /\ used' = [p |-> p, spd |-> spd, v |-> v, fc |-> fc, em |-> em,
                            di |-> di, pan |-> pn]
                /\ UNCHANGED <<bench, aside>>

(* ------------------------------------------------------------------ *)
(* _cb line by line, for the runs in which the main thread moves      *)
(* between two lines of a call                                        *)
(* ------------------------------------------------------------------ *)
Bump(f) == [cb.reads EXCEPT ![f] = @ + 1]

\* lines 86-88: if not self.playing: out[:] = 0 ; return
CbEnter ==
    /\ HostCalls
    /\ cb.pc = "idle"
    /\ blocks' = blocks + 1
    /\ last' = "cb"
    /\ IF ~playing
       THEN /\ out' = PausedOut(Frames)
            /\ UNCHANGED cb
       ELSE /\ cb' = [NoLocals EXCEPT !.pc = "L90",
                                      !.reads = [NoReads EXCEPT !["playing"] = 1]]
            /\ UNCHANGED out
    /\ UNCHANGED <<engine, raised, mainpc, ghosts>>

\* lines 90-99: one parameter is read per line, then the rate is computed
CbReadParam ==
    /\ cb.pc \in {"L90", "L91", "L92", "L93", "L94", "L95", "L96", "L97"}
    /\ cb' = CASE cb.pc = "L90" ->
                   [cb EXCEPT !.pc = "L91", !.p = SnapPitch(pitch),
                              !.reads = Bump("pitch")]
               [] cb.pc = "L91" ->
                   [cb EXCEPT !.pc = "L92", !.spd = SnapSpeed(speed_mult),
                              !.reads = Bump("speed_mult")]
               [] cb.pc = "L92" ->
                   [cb EXCEPT !.pc = "L93", !.v = SnapVolume(volume),
                              !.reads = Bump("volume")]
               [] cb.pc = "L93" ->
                   [cb EXCEPT !.pc = "L94", !.fc = SnapCutoff(cutoff),
                              !.reads = Bump("cutoff")]
               [] cb.pc = "L94" ->
                   [cb EXCEPT !.pc = "L95", !.em = SnapEcho(echo_mix),
                              !.reads = Bump("echo_mix")]
               [] cb.pc = "L95" ->
                   [cb EXCEPT !.pc = "L96", !.di = SnapDist(dist),
                              !.reads = Bump("dist")]
               [] cb.pc = "L96" ->
                   [cb EXCEPT !.pc = "L97", !.rev = reverse,
                              !.reads = Bump("reverse")]
               [] cb.pc = "L97" ->
                   [cb EXCEPT !.pc = "L102", !.pan = SnapPan(pan),
                              !.rate = Rate(cb.p, cb.spd, cb.rev),
                              !.reads = Bump("pan")]
    /\ last' = "cb"
    /\ UNCHANGED <<engine, out, raised, mainpc, blocks, ghosts>>

\* lines 102-107: the block is read from self.data, starting at self.pos
CbResample ==
    /\ cb.pc = "L102"
    /\ IF ResampleRaises(data)
       THEN /\ raised' = TRUE
            /\ cb' = NoLocals
            /\ UNCHANGED <<seekOk, seekReq>>
       ELSE /\ cb' = [cb EXCEPT !.pc = "L108",
                                !.c = Resample(data, pos, cb.rate, Frames)]
            /\ seekOk' = (seekReq = -1 \/ pos = seekReq)
            /\ seekReq' = -1
            /\ UNCHANGED raised
    /\ last' = "cb"
    /\ UNCHANGED <<engine, out, mainpc, blocks, used, bench, aside>>

\* line 108, right-hand side: (self.pos + frames * rate) % self.n
CbPosLoad ==
    /\ cb.pc = "L108"
    /\ cb' = [cb EXCEPT !.pc = "L108s",
                        !.sum = AdvancePos(pos, cb.rate, Frames, Len(data))]
    /\ last' = "cb"
    /\ UNCHANGED <<engine, out, raised, mainpc, blocks, ghosts>>

\* line 108, the store: self.pos = ...
CbPosStore ==
    /\ cb.pc = "L108s"
    /\ pos' = cb.sum
    /\ cb' = [cb EXCEPT !.pc = "L110", !.sum = 0]
    /\ last' = "cb"
    /\ UNCHANGED <<data, playing, params, dspState, vis, stream, out, raised,
                   mainpc, blocks, ghosts>>

\* a distortion stage that reads self.dist again instead of the local di
DistArgReread == SnapDist(dist)

\* the parameter each stage of lines 110-147 works with: the locals of _cb
CutoffArg == cb.fc      \* if fc < 0.97
DistArg == cb.di        \* if di > 0.01
EchoArg == cb.em        \* self._echo_process(c, em)
PanArg == cb.pan        \* if abs(pan) > 0.01
VolumeArg == cb.v       \* c *= v

\* lines 110-147: filter, distortion, echo, pan, volume, clamp, output
CbDspStep ==
    /\ cb.pc = "L110"
    /\ DspEffect(DspTail(cb.c, VolumeArg, CutoffArg, EchoArg, DistArg, PanArg,
                         FilterState, EchoRing))
    /\ used' = [p |-> cb.p, spd |-> cb.spd, v |-> VolumeArg, fc |-> CutoffArg,
                em |-> EchoArg, di |-> DistArg, pan |-> PanArg]
    /\ cb' = [cb EXCEPT !.pc = "idle", !.rate = 0, !.c = <<>>]
    /\ last' = "cb"
    /\ UNCHANGED <<data, pos, playing, params, stream, mainpc, blocks, seekReq,
                   seekOk, bench, aside>>

(* ------------------------------------------------------------------ *)
(* main(): the event loop, run by the main thread                     *)
(* ------------------------------------------------------------------ *)
\* the body of `while running` is executing
InLoop == mainpc = "loop" \/ mainpc = "quit"

\* engine.start() ; running = True
Start ==
    /\ mainpc = "boot"
    /\ stream = "none"
    /\ stream' = "running"
    /\ mainpc' = "loop"
    /\ last' = "start"
    /\ UNCHANGED <<data, pos, playing, params, dspState, vis, out, raised, cb,
                   blocks, ghosts>>

\* draw_waveform, line 1453: chunk = engine.vis, the one read of the attribute
DrawRead ==
    /\ InLoop
    /\ chunk = None
    /\ chunk' = vis
    /\ last' = "draw"
    /\ UNCHANGED <<engine, out, raised, cb, mainpc, blocks, seekReq, seekOk,
                   used, probe, aside>>

\* draw_waveform, lines 1454-1469: the polyline is drawn from the local
\* chunk and the call returns
DrawDone ==
    /\ chunk # None
    /\ chunk' = None
    /\ last' = "draw"
    /\ UNCHANGED <<engine, out, raised, cb, mainpc, blocks, seekReq, seekOk,
                   used, probe, aside>>

\* a hit test that takes the right and bottom edges as inside
CollideClosed(mx, my) ==
    /\ BAR_X <= mx /\ mx <= BAR_X + BAR_W
    /\ BAR_Y <= my /\ my <= BAR_Y + BAR_H

\* seek_bar_rect.collidepoint(mx, my): the right and bottom edges are outside
Collide(mx, my) ==
    /\ BAR_X <= mx /\ mx < BAR_X + BAR_W
    /\ BAR_Y <= my /\ my < BAR_Y + BAR_H

\* frac = (mx - seek_bar_rect.x) / seek_bar_rect.width ; clamped to [0, 1]
SeekFrac(mx) == Clip(Fl(RoundDiv((mx - BAR_X) * POS_UNIT, BAR_W)), 0, POS_UNIT)

\* frac * engine.n
SeekPos(mx, n) == Fl(SeekFrac(mx) * n)

\* a left click on the waveform bar: engine.pos = frac * engine.n
Seek(mx, my) ==
    /\ InLoop
    /\ Collide(mx, my)
    /\ pos' = SeekPos(mx, Len(data))
    /\ seekReq' = SeekPos(mx, Len(data))
    /\ last' = "seek"
    /\ UNCHANGED <<data, playing, params, dspState, vis, stream, out, raised,
                   cb, mainpc, blocks, seekOk, used, bench, aside>>

\* K_SPACE: engine.playing = not engine.playing
Space ==
    /\ InLoop
    /\ playing' = ~playing
    /\ last' = "space"
    /\ UNCHANGED <<data, pos, params, dspState, vis, stream, out, raised, cb,
                   mainpc, blocks, ghosts>>

\* a reset of the volume thread to full volume
VolumeThreadResetFull == PARAM_UNIT
\* the values the objects' reset() methods store in the engine
ElasticStringReset == 4       \* self.eng.pitch = 1.0
GravityOrbReset == 1000       \* self.eng.cutoff = 1.0
RipplePondReset == 0          \* self.eng.echo_mix = 0.0
ParticleCloudReset == 0       \* self.eng.dist = 0.0
VolumeThreadReset == 700      \* self.eng.volume = 0.7
ReverseVortexReset == FALSE   \* self.eng.reverse = False
TimeSpiralReset == 4          \* self.eng.speed_mult = 1.0
DraggableSpeakerReset == 0    \* self.eng.pan = 0.0

\* K_r: for obj in objects: obj.reset()
ResetHotkey ==
    /\ InLoop
    /\ pitch' = ElasticStringReset
    /\ cutoff' = GravityOrbReset
    /\ echo_mix' = RipplePondReset
    /\ dist' = ParticleCloudReset
    /\ volume' = VolumeThreadReset
    /\ reverse' = ReverseVortexReset
    /\ speed_mult' = TimeSpiralReset
    /\ pan' = DraggableSpeakerReset
    /\ last' = "reset"
    /\ UNCHANGED <<data, pos, playing, dspState, vis, stream, out, raised, cb,
                   mainpc, blocks, ghosts>>

\* the engine's lifecycle state: the stream of start()/stop() and the flag
Lifecycle ==
    IF stream # "running" THEN "Stopped"
    ELSE IF playing THEN "Playing" ELSE "Paused"

\* pygame.QUIT or K_ESCAPE: running = False
Quit ==
    /\ mainpc = "loop"
    /\ mainpc' = "quit"
    /\ last' = "quit"
    /\ UNCHANGED <<engine, out, raised, cb, blocks, ghosts>>

\* after the loop: engine.stop(), which waits for a callback in flight
Stop ==
    /\ mainpc = "quit"
    /\ cb.pc = "idle"
    /\ stream' = IF stream = "none" THEN "none" ELSE "closed"
    /\ mainpc' = "stopped"
    /\ last' = "stop"
    /\ UNCHANGED <<data, pos, playing, params, dspState, vis, out, raised, cb,
                   blocks, ghosts>>

(* ------------------------------------------------------------------ *)
(* The objects' update(): stores to the engine's parameters           *)
(* ------------------------------------------------------------------ *)
Others == <<data, pos, playing, dspState, vis, stream, out, raised, cb, mainpc,
            blocks, ghosts>>

SetVolume(x) ==
    /\ InLoop /\ volume' = x /\ last' = "set"
    /\ UNCHANGED <<Others, pitch, cutoff, echo_mix, dist, reverse, pan, speed_mult>>
SetPitch(x) ==
    /\ InLoop /\ pitch' = x /\ last' = "set"
    /\ UNCHANGED <<Others, volume, cutoff, echo_mix, dist, reverse, pan, speed_mult>>
SetCutoff(x) ==
    /\ InLoop /\ cutoff' = x /\ last' = "set"
    /\ UNCHANGED <<Others, volume, pitch, echo_mix, dist, reverse, pan, speed_mult>>
SetEchoMix(x) ==
    /\ InLoop /\ echo_mix' = x /\ last' = "set"
    /\ UNCHANGED <<Others, volume, pitch, cutoff, dist, reverse, pan, speed_mult>>
SetDist(x) ==
    /\ InLoop /\ dist' = x /\ last' = "set"
    /\ UNCHANGED <<Others, volume, pitch, cutoff, echo_mix, reverse, pan, speed_mult>>
SetReverse(x) ==
    /\ InLoop /\ reverse' = x /\ last' = "set"
    /\ UNCHANGED <<Others, volume, pitch, cutoff, echo_mix, dist, pan, speed_mult>>
SetPan(x) ==
    /\ InLoop /\ pan' = x /\ last' = "set"
    /\ UNCHANGED <<Others, volume, pitch, cutoff, echo_mix, dist, reverse, speed_mult>>
SetSpeedMult(x) ==
    /\ InLoop /\ speed_mult' = x /\ last' = "set"
    /\ UNCHANGED <<Others, volume, pitch, cutoff, echo_mix, dist, reverse, pan>>

\* one frame of the main loop: for obj in objects: obj.update(mx, my, dt),
\* every object storing the value its own state maps to
ObjectsUpdate(w) ==
    /\ InLoop
    /\ volume' = w.volume
    /\ pitch' = w.pitch
    /\ cutoff' = w.cutoff
    /\ echo_mix' = w.echo_mix
    /\ dist' = w.dist
    /\ reverse' = w.reverse
    /\ pan' = w.pan
    /\ speed_mult' = w.speed_mult
    /\ last' = "set"
    /\ UNCHANGED Others

(* ------------------------------------------------------------------ *)
(* The event loop of main, lines 1536-1567, and the objects' handle() *)
(* ------------------------------------------------------------------ *)
\* objects = [...], in the order of the list
Objects ==
    <<"ElasticString", "GravityOrb", "RipplePond", "ParticleCloud", "VolumeThread",
      "ReverseVortex", "TimeSpiral", "DraggableSpeaker", "SpaceShooter",
      "ChaosBurst", "SecretWobble">>

\* len(self.clicks) >= 5
CHAOS_CLICKS == 5

\* An event is [type, button, key, mx, my, hit, kept]: hit names the hit
\* tests that succeed at (mx, my), where the objects stand at the time;
\* kept is the number of earlier right clicks younger than 1.5 s.
Down(ev, b) == ev.type = "MOUSEBUTTONDOWN" /\ ev.button = b
Up(ev, b) == ev.type = "MOUSEBUTTONUP" /\ ev.button = b
Pass(o) == [ret |-> FALSE, o |-> o, burst |-> FALSE]
Take(o) == [ret |-> TRUE, o |-> o, burst |-> FALSE]

\* ElasticString, GravityOrb, ParticleCloud, VolumeThread, ReverseVortex:
\* a left press on the object grabs it and is consumed; a left release
\* lets go and is passed on
GrabHandle(name, ev, o) ==
    IF Down(ev, 1) /\ name \in ev.hit
    THEN Take([o EXCEPT !.grab = @ \cup {name}])
    ELSE IF Up(ev, 1) THEN Pass([o EXCEPT !.grab = @ \ {name}])
    ELSE Pass(o)

\* SpaceShooter._reset_game
ResetGame(o) == [o EXCEPT !.over = FALSE, !.keys = {}]

\* the name SpaceShooter.handle adds to or drops from _keys_held for a key
HeldName(key) ==
    CASE key \in {"K_LEFT", "K_a"} -> {"left"}
      [] key \in {"K_RIGHT", "K_d"} -> {"right"}
      [] key \in {"K_UP", "K_w"} -> {"shoot"}
      [] OTHER -> {}

\* SpaceShooter.handle, lines 1183-1219
ShooterHandle(ev, o) ==
    IF Down(ev, 1) /\ "ShooterButton" \in ev.hit
    THEN Take(IF o.open THEN [o EXCEPT !.open = FALSE]
              ELSE ResetGame([o EXCEPT !.open = TRUE]))
    ELSE IF Down(ev, 1) /\ o.open /\ "viewport" \notin ev.hit
    THEN Take([o EXCEPT !.open = FALSE])
    ELSE IF ~o.open THEN Pass(o)
    ELSE IF ev.type = "KEYDOWN" /\ HeldName(ev.key) # {}
    THEN Take([o EXCEPT !.keys = @ \cup HeldName(ev.key)])
    ELSE IF ev.type = "KEYUP"
    THEN LET u == [o EXCEPT !.keys = @ \ HeldName(ev.key)]
         IN  IF ev.key = "K_RETURN" /\ o.over THEN Take(ResetGame(u)) ELSE Pass(u)
    ELSE Pass(o)

\* ChaosBurst.handle, lines 740-749: the fifth right click within 1.5 s
\* triggers the burst, unless one is running
ChaosHandle(ev, o) ==
    IF Down(ev, 3)
    THEN LET n == Min(Min(o.clicks, ev.kept) + 1, CHAOS_CLICKS)
         IN  IF n >= CHAOS_CLICKS /\ ~o.chaos
             THEN [ret |-> TRUE, o |-> [o EXCEPT !.clicks = 0, !.chaos = TRUE],
                   burst |-> TRUE]
             ELSE Pass([o EXCEPT !.clicks = n])
    ELSE Pass(o)

\* obj.handle(ev, mx, my) of the object called name
Handle(name, ev, o) ==
    CASE name \in {"ElasticString", "GravityOrb", "ParticleCloud", "VolumeThread",
                   "ReverseVortex"} -> GrabHandle(name, ev, o)
      [] name = "RipplePond" ->
            IF Down(ev, 1) /\ name \in ev.hit THEN Take(o) ELSE Pass(o)
      [] name = "TimeSpiral" ->
            IF ev.type = "MOUSEWHEEL"
            THEN IF "TimeSpiralWheel" \in ev.hit THEN Take(o) ELSE Pass(o)
            ELSE GrabHandle(name, ev, o)
      [] name = "DraggableSpeaker" ->
            IF Down(ev, 1) /\ "SpeakerButton" \in ev.hit THEN Take(o)
            ELSE IF ev.type = "MOUSEWHEEL" THEN Take(o)
            ELSE GrabHandle(name, ev, o)
      [] name = "SpaceShooter" -> ShooterHandle(ev, o)
      [] name = "ChaosBurst" -> ChaosHandle(ev, o)
      [] name = "SecretWobble" ->
            IF Down(ev, 1) /\ name \in ev.hit
            THEN Take([o EXCEPT !.wobble = ~@]) ELSE Pass(o)

\* a loop over the objects that goes on after an object has consumed
RECURSIVE OfferAll(_, _, _)
OfferAll(k, ev, r) ==
    IF k > Len(Objects) THEN r
    ELSE LET h == Handle(Objects[k], ev, r.o)
         IN  OfferAll(k + 1, ev,
                      [o |-> h.o, burst |-> r.burst \/ h.burst,
                       offered |-> Append(r.offered, <<Objects[k], h.ret>>)])

\* lines 1550-1554, from the k-th object on: for obj in objects:
\* if obj.handle(ev, mx, my): consumed = True ; break
RECURSIVE Offer(_, _, _)
Offer(k, ev, r) ==
    IF k > Len(Objects) THEN r
    ELSE LET h == Handle(Objects[k], ev, r.o)
             t == [o |-> h.o, burst |-> r.burst \/ h.burst,
                   offered |-> Append(r.offered, <<Objects[k], h.ret>>)]
         IN  IF h.ret THEN t ELSE Offer(k + 1, ev, t)

\* consumed, line 1556
Consumed(offered) == \E i \in 1..Len(offered) : offered[i][2]

\* the hotkey of lines 1560-1567 an event stands for
Hotkey(ev) ==
    IF ev.type # "KEYDOWN" THEN "none"
    ELSE CASE ev.key = "K_SPACE" -> "space"
           [] ev.key = "K_ESCAPE" -> "escape"
           [] ev.key = "K_r" -> "reset"
           [] OTHER -> "none"

\* what obj.reset() leaves of the objects: ChaosBurst.reset keeps its clicks
ObjectsReset(o) == [ObjectsInit EXCEPT !.clicks = o.clicks]

\* the engine parameters, and what the resets and a burst store in them:
\* _trigger draws pitch, cutoff, echo_mix, dist and speed_mult at random,
\* one draw of each here (1.0, 0.5, 0.6, 0.3, 1.0)
ParamsNow ==
    [volume |-> volume, pitch |-> pitch, cutoff |-> cutoff, echo_mix |-> echo_mix,
     dist |-> dist, reverse |-> reverse, pan |-> pan, speed_mult |-> speed_mult]
ParamsReset ==
    [volume |-> VolumeThreadReset, pitch |-> ElasticStringReset,
     cutoff |-> GravityOrbReset, echo_mix |-> RipplePondReset,
     dist |-> ParticleCloudReset, reverse |-> ReverseVortexReset,
     pan |-> DraggableSpeakerReset, speed_mult |-> TimeSpiralReset]
ParamsBurst ==
    [ParamsNow EXCEPT !.pitch = RATE_UNIT, !.cutoff = PARAM_UNIT \div 2,
                      !.echo_mix = (PARAM_UNIT * 6) \div 10,
                      !.dist = (PARAM_UNIT * 3) \div 10, !.speed_mult = RATE_UNIT]

\* One pass of the body of `for ev in pygame.event.get()`: what it leaves
\* in the engine, in the objects and in running, and the way the event took.
Routing(ev) ==
    LET keep == [pos |-> pos, seekReq |-> seekReq, playing |-> playing,
                 par |-> ParamsNow, mainpc |-> mainpc, objs |-> objs,
                 routed |-> [NoRouting EXCEPT !.ev = ev]]
        r == Offer(1, ev, [o |-> objs, burst |-> FALSE, offered |-> <<>>])
        seen == [keep EXCEPT !.objs = r.o, !.routed.offered = r.offered,
                             !.par = IF r.burst THEN ParamsBurst ELSE ParamsNow]
        key == Hotkey(ev)
    IN  IF ev.type = "QUIT"
        THEN [keep EXCEPT !.mainpc = "quit", !.routed.quit = TRUE]
        ELSE IF Down(ev, 1) /\ Collide(ev.mx, ev.my)
        THEN [keep EXCEPT !.pos = SeekPos(ev.mx, Len(data)),
                          !.seekReq = SeekPos(ev.mx, Len(data)),
                          !.routed.seek = TRUE]
        ELSE IF Consumed(r.offered) THEN seen
        ELSE CASE key = "space" ->
                    [seen EXCEPT !.playing = ~playing, !.routed.hotkey = key]
               [] key = "escape" ->
                    [seen EXCEPT !.mainpc = "quit", !.routed.hotkey = key]
               [] key = "reset" ->
                    [seen EXCEPT !.par = ParamsReset, !.objs = ObjectsReset(r.o),
                                 !.routed.hotkey = key]
               [] OTHER -> seen

Event(ev) ==
    /\ InLoop
    /\ \E n \in {Routing(ev)} :
           /\ pos' = n.pos
           /\ seekReq' = n.seekReq
           /\ playing' = n.playing
           /\ volume' = n.par.volume
           /\ pitch' = n.par.pitch
           /\ cutoff' = n.par.cutoff
           /\ echo_mix' = n.par.echo_mix
           /\ dist' = n.par.dist
           /\ reverse' = n.par.reverse
           /\ pan' = n.par.pan
           /\ speed_mult' = n.par.speed_mult
           /\ mainpc' = n.mainpc
           /\ objs' = n.objs
           /\ routed' = n.routed
    /\ last' = "event"
    /\ UNCHANGED <<data, dspState, vis, stream, out, raised, cb, blocks, seekOk,
                   used, bench, snakeGame>>

\* SpaceShooter.update, line 1274: the last hit point is lost
ShooterLoses ==
    /\ InLoop
    /\ objs.open /\ ~objs.over
    /\ objs' = [objs EXCEPT !.over = TRUE]
    /\ last' = "update"
    /\ UNCHANGED <<engine, out, raised, cb, mainpc, blocks, seekReq, seekOk,
                   used, bench, routed, snakeGame>>

\* the events put in the queue: presses on the bar and off it, over no
\* object, one and two; releases; right clicks; the wheel; keys
Ev(type, button, key, at, hit) ==
    [type |-> type, button |-> button, key |-> key, mx |-> at[1], my |-> at[2],
     hit |-> hit, kept |-> CHAOS_CLICKS]
OnBar == <<BAR_X + 1, BAR_Y>>
OffBar == <<0, 0>>
Events ==
    {Ev("QUIT", 0, "", OffBar, {})}
    \cup {Ev("MOUSEBUTTONDOWN", 1, "", OnBar, h) : h \in {{}, {"DraggableSpeaker"}}}
    \cup {Ev("MOUSEBUTTONDOWN", 1, "", OffBar, h) :
             h \in {{}, {"DraggableSpeaker"}, {"GravityOrb", "DraggableSpeaker"},
                    {"ShooterButton"}, {"viewport"}}}
    \cup {Ev("MOUSEBUTTONUP", 1, "", at, {}) : at \in {OnBar, OffBar}}
    \cup {Ev("MOUSEBUTTONDOWN", 3, "", at, {}) : at \in {OnBar, OffBar}}
    \cup {Ev("MOUSEWHEEL", 0, "", OffBar, h) : h \in {{}, {"TimeSpiralWheel"}}}
    \cup {Ev("KEYDOWN", 0, k, OffBar, {}) :
             k \in {"K_SPACE", "K_ESCAPE", "K_r", "K_LEFT"}}
    \cup {Ev("KEYUP", 0, k, OffBar, {}) : k \in {"K_LEFT", "K_RETURN"}}

\* The event loop of main with the stream started and no callback made.
NextEvents ==
    \/ Start
    \/ \E ev \in Events : Event(ev)
    \/ ShooterLoses
SpecEvents == InitWith(Silence) /\ [][NextEvents]_vars

(* ------------------------------------------------------------------ *)
(* snake.py: SnakeGame                                                *)
(* ------------------------------------------------------------------ *)
\* Directions
UP == <<0, -1>>
DOWN == <<0, 1>>
LEFT == <<-1, 0>>
RIGHT == <<1, 0>>

Cells == (0..(GRID_WIDTH - 1)) \X (0..(GRID_HEIGHT - 1))
\* pos in snake_body
InBody(p, body) == \E i \in 1..Len(body) : body[i] = p

\* a food picker that may return any cell of the grid
AnyCell(body) == Cells

\* random_food_position(snake_body): the cells it can return; with none
\* left its loop never ends
FoodPositions(body) == {p \in Cells : ~InBody(p, body)}

\* reset(): the snake of three cells at the centre, head first
CenterSnake ==
    LET center_x == GRID_WIDTH \div 2
        center_y == GRID_HEIGHT \div 2
    IN  <<<<center_x, center_y>>, <<center_x - 1, center_y>>,
          <<center_x - 2, center_y>>>>

\* a restart that takes the score of the lost game for the best
ResetBest(hs) == score
\* self.high_score = getattr(self, "high_score", 0)
KeptBest(hs) == hs

\* reset() with the food drawn as f; hs is the high_score so far
ResetTo(f, hs) ==
    /\ snake' = CenterSnake
    /\ direction' = RIGHT
    /\ next_direction' = RIGHT
    /\ food' = f
    /\ score' = 0
    /\ high_score' = KeptBest(hs)
    /\ game_over' = FALSE
    /\ paused' = FALSE

\* SnakeGame(): __init__ calls reset() on an object without high_score
SnakeInit ==
    /\ snake = CenterSnake
    /\ direction = RIGHT
    /\ next_direction = RIGHT
    /\ food \in FoodPositions(CenterSnake)
    /\ score = 0
    /\ high_score = 0
    /\ game_over = FALSE
    /\ paused = FALSE
    /\ gamepc = "run"

\* the direction a key asks for, and the one that refuses it
KeyDir(key) ==
    CASE key \in {"K_UP", "K_w"} -> UP
      [] key \in {"K_DOWN", "K_s"} -> DOWN
      [] key \in {"K_LEFT", "K_a"} -> LEFT
      [] key \in {"K_RIGHT", "K_d"} -> RIGHT
      [] OTHER -> None
Refuses(key) ==
    CASE key \in {"K_UP", "K_w"} -> DOWN
      [] key \in {"K_DOWN", "K_s"} -> UP
      [] key \in {"K_LEFT", "K_a"} -> RIGHT
      [] key \in {"K_RIGHT", "K_d"} -> LEFT
      [] OTHER -> None

\* a key handler that tests the turn against next_direction
TurnAgainstNext(key) == next_direction # Refuses(key)
\* if self.direction != DOWN: ... : the turn is tested against direction
TurnAllowed(key) == direction # Refuses(key)

Audio == <<engine, out, raised, cb, mainpc, blocks, seekReq, seekOk, used,
           bench, ui>>

\* handle_events, one KEYDOWN event, lines 116-140
KeyDown(key) ==
    /\ gamepc = "run"
    /\ UNCHANGED Audio
    /\ IF key = "K_ESCAPE"
       THEN /\ gamepc' = "exit"
            /\ last' = "quit"
            /\ UNCHANGED <<snake, direction, next_direction, food, score,
                           high_score, game_over, paused>>
       ELSE IF key = "K_r" /\ game_over
       THEN /\ \E f \in FoodPositions(CenterSnake) : ResetTo(f, high_score)
            /\ last' = "restart"
            /\ UNCHANGED gamepc
       ELSE IF key = "K_p" /\ ~game_over
       THEN /\ paused' = ~paused
            /\ last' = "pause"
            /\ UNCHANGED <<snake, direction, next_direction, food, score,
                           high_score, game_over, gamepc>>
       ELSE IF KeyDir(key) # None /\ TurnAllowed(key)
       THEN /\ next_direction' = KeyDir(key)
            /\ last' = "turn"
            /\ UNCHANGED <<snake, direction, food, score, high_score, game_over,
                           paused, gamepc>>
       ELSE /\ last' = IF KeyDir(key) # None THEN "refused" ELSE "key"
            /\ UNCHANGED snakeGame

\* handle_events, pygame.QUIT: sys.exit()
QuitEvent ==
    /\ gamepc = "run"
    /\ gamepc' = "exit"
    /\ last' = "quit"
    /\ UNCHANGED <<Audio, snake, direction, next_direction, food, score,
                   high_score, game_over, paused>>

\* a self-collision test that leaves out the tail cell
HitsBodyButTail(p, body) == InBody(p, SubSeq(body, 1, Len(body) - 1))
\* if new_head in self.snake
HitsBody(p, body) == InBody(p, body)

\* not (0 <= new_head[0] < GRID_WIDTH and 0 <= new_head[1] < GRID_HEIGHT)
HitsWall(p) == ~(0 <= p[1] /\ p[1] < GRID_WIDTH /\ 0 <= p[2] /\ p[2] < GRID_HEIGHT)

\* a best score that follows the score
BestLast(sc, hs) == sc
\* if self.score > self.high_score: self.high_score = self.score
Best(sc, hs) == IF sc > hs THEN sc ELSE hs

\* update(), lines 144-176
Update ==
    /\ gamepc = "run"
    /\ last' = "update"
    /\ UNCHANGED <<Audio, paused>>
    /\ IF game_over \/ paused
       THEN UNCHANGED <<snake, direction, next_direction, food, score, high_score,
                        game_over, gamepc>>
       ELSE LET new_head == <<snake[1][1] + next_direction[1],
                              snake[1][2] + next_direction[2]>>
                grown == <<new_head>> \o snake
            IN  /\ direction' = next_direction
                /\ UNCHANGED next_direction
                /\ IF HitsWall(new_head) \/ HitsBody(new_head, snake)
                   THEN /\ game_over' = TRUE
                        /\ UNCHANGED <<snake, food, score, high_score, gamepc>>
                   ELSE IF new_head = food
                   THEN /\ snake' = grown
                        /\ score' = score + 1
                        /\ high_score' = Best(score + 1, high_score)
                        /\ UNCHANGED game_over
                        /\ IF FoodPositions(grown) = {}
                           THEN gamepc' = "food" /\ UNCHANGED food
                           ELSE /\ food' \in FoodPositions(grown)
                                /\ UNCHANGED gamepc
                   ELSE /\ snake' = SubSeq(grown, 1, Len(snake))
                        /\ UNCHANGED <<food, score, high_score, game_over, gamepc>>

\* the keys of run()'s event loop and its ticks
SnakeKeys == {"K_UP", "K_s", "K_LEFT", "K_d", "K_p", "K_r", "K_ESCAPE", "K_x"}
NextSnake ==
    \/ \E key \in SnakeKeys : KeyDown(key)
    \/ QuitEvent
    \/ Update
InitSnake == AudioInit(Silence) /\ SnakeInit
SpecSnake == InitSnake /\ [][NextSnake]_vars

(* ------------------------------------------------------------------ *)
(* _echo_process called on its own, block after block                 *)
(* ------------------------------------------------------------------ *)
\* calls made to a stage on its own: enough for the write pointer to wrap
EchoSteps == BufLen \div BLOCK + 1

\* the record of the calls so far: fed and kept are the samples passed in
\* and the samples found in the ring where each call wrote, in order;
\* dry marks the samples passed in with the mix off
EchoBench ==
    IF probe.stage = "echo" THEN probe
    ELSE [stage |-> "echo", steps |-> 0, fed |-> <<>>, kept |-> <<>>,
          dry |-> <<>>, half |-> TRUE, c |-> <<>>, mix |-> 0, ret |-> <<>>,
          d1 |-> <<>>, d2 |-> <<>>, wp0 |-> 0]

\* self._echo_process(c, mix), before the stream is started
EchoStep(c, mix) ==
    /\ mainpc = "boot"
    /\ EchoBench.steps < EchoSteps
    /\ LET r == EchoProcess(c, mix, EchoRing)
           n == Len(c)
           b == EchoBench
       IN  /\ echo_buf' = r.buf
           /\ echo_wp' = r.wp
           /\ probe' = [stage |-> "echo", steps |-> b.steps + 1,
                        fed |-> b.fed \o c,
                        kept |-> b.kept \o RingRead(r.buf, echo_wp, n),
                        dry |-> b.dry \o [i \in 1..n |-> ~EchoActive(mix)],
                        half |-> b.half /\ mix = PARAM_UNIT \div 2,
                        c |-> c, mix |-> mix, ret |-> r.c,
                        d1 |-> RingRead(echo_buf, Tap1Pos(echo_wp, BufLen), n),
                        d2 |-> RingRead(echo_buf, Tap2Pos(echo_wp, BufLen), n),
                        wp0 |-> echo_wp]
    /\ last' = "echo"
    /\ UNCHANGED <<data, pos, playing, params, sos, zi_l, zi_r, last_norm, vis,
                   stream, out, raised, cb, mainpc, blocks, seekReq, seekOk,
                   used, chunk, aside>>

\* a block of n equal frames
Flat(f, n) == [i \in 1..n |-> f]
UnitFrame == <<FULL_SCALE, FULL_SCALE>>

(* ------------------------------------------------------------------ *)
(* _ring_write and _ring_read called on their own                     *)
(* ------------------------------------------------------------------ *)
\* self._ring_write(wp, d) on the ring as __init__ left it
RingWriteStep(wp, d) ==
    /\ mainpc = "boot"
    /\ echo_buf = ZeroBlock(BufLen)
    /\ echo_buf' = RingWrite(echo_buf, wp, d)
    /\ last' = "write"
    /\ UNCHANGED <<data, pos, playing, params, echo_wp, sos, zi_l, zi_r, last_norm,
                   vis, stream, out, raised, cb, mainpc, blocks, seekReq, seekOk,
                   used, bench, aside>>

\* self._ring_read(start, n): the ring before the call and what it returned
RingReadStep(start, n) ==
    /\ mainpc = "boot"
    /\ probe' = [stage |-> "ring", start |-> start, n |-> n, before |-> echo_buf,
                 ret |-> RingRead(echo_buf, start, n)]
    /\ last' = "read"
    /\ UNCHANGED <<engine, out, raised, cb, mainpc, blocks, seekReq, seekOk,
                   used, chunk, aside>>

\* n frames that all differ, counted up (s = 1) or down (s = -1)
Ramp(n, s) == [i \in 1..n |-> <<s * i, -(s * i)>>]

\* self._ring_write(wp, d) and then self._ring_read(wp, len(d)), on the ring
\* as __init__ left it and on a ring written once
RoundTripStep(wp, d) ==
    /\ mainpc = "boot"
    /\ probe.stage = "trip" => probe.before = ZeroBlock(BufLen)
    /\ echo_buf' = RingWrite(echo_buf, wp, d)
    /\ probe' = [stage |-> "trip", wp |-> wp, d |-> d, before |-> echo_buf,
                 ret |-> RingRead(RingWrite(echo_buf, wp, d), wp, Len(d))]
    /\ last' = "trip"
    /\ UNCHANGED <<data, pos, playing, params, echo_wp, sos, zi_l, zi_r, last_norm,
                   vis, stream, out, raised, cb, mainpc, blocks, seekReq, seekOk,
                   used, chunk, aside>>

\* writes of every length up to the capacity at every write pointer
NextTrip ==
    \E wp \in 0..(BufLen - 1), n \in 0..BufLen, s \in {1, -1} :
        RoundTripStep(wp, Ramp(n, s))
SpecTrip == InitWith(Silence) /\ [][NextTrip]_vars

(* ------------------------------------------------------------------ *)
(* the cells of the ring one call of _echo_process touches, at the    *)
(* size of the program                                                *)
(* ------------------------------------------------------------------ *)
\* the cells _ring_read(start0, n) reads and _ring_write(start0, data) with
\* n = len(data) writes in a ring of bl cells: one slice, or two when the
\* block runs past the end
RingCells(start0, n, bl) ==
    LET start == start0 % bl
    IN  IF start + n <= bl
        THEN start..(start + n - 1)
        ELSE LET f == bl - start
             IN  (start..(bl - 1)) \cup (0..(n - f - 1))

\* where the next call finds the write pointer: self._echo_wp = (wp + n) % bl
TapsWp ==
    IF probe.stage = "taps" THEN (probe.wp + probe.n) % RingFrames ELSE 0

\* _echo_process on a block of n frames: the write pointer it starts from
TapsStep(n) ==
    /\ mainpc = "boot"
    /\ probe' = [stage |-> "taps", wp |-> TapsWp, n |-> n]
    /\ last' = "taps"
    /\ UNCHANGED <<engine, out, raised, cb, mainpc, blocks, seekReq, seekOk,
                   used, chunk, aside>>

\* blocks of one frame and of BLOCK frames, which take the pointer to
\* every cell of the ring
NextTaps == \E n \in {1, BLOCK_SIZE} : TapsStep(n)
SpecTaps == InitWith(Silence) /\ [][NextTaps]_vars

(* ------------------------------------------------------------------ *)
(* the filter stage of _cb, lines 110-128, block after block          *)
(* ------------------------------------------------------------------ *)
\* cutoffs on both sides of the 0.97 threshold and at it, two of them
\* (0.5 and 0.502) with norms closer than the 0.002 of the recompute test
FilterCutoffs ==
    {0, PARAM_UNIT \div 2, PARAM_UNIT \div 2 + 2, BYPASS_CUTOFF - 10, BYPASS_CUTOFF,
     PARAM_UNIT}

\* the cutoffs of the blocks filtered so far
FilterTrail == IF probe.stage = "filter" THEN probe.trail ELSE <<>>

\* lines 110-128 on the block c with the clamped cutoff fc
FilterStep(c, fc) ==
    /\ mainpc = "boot"
    /\ ~raised
    /\ Len(FilterTrail) < MAX_BLOCKS
    /\ LET r == FilterStage(c, fc, FilterState)
       IN  /\ sos' = r.sos
           /\ zi_l' = r.zi_l
           /\ zi_r' = r.zi_r
           /\ last_norm' = r.last_norm
           /\ raised' = r.raised
           /\ probe' = [stage |-> "filter", trail |-> Append(FilterTrail, fc),
                        c |-> c, ret |-> r.c]
    /\ last' = "filter"
    /\ UNCHANGED <<data, pos, playing, params, echo_buf, echo_wp, vis, stream,
                   out, cb, mainpc, blocks, seekReq, seekOk, used, chunk, aside>>

(* ------------------------------------------------------------------ *)
(* the pan stage of _cb, lines 137-142, applied on its own            *)
(* ------------------------------------------------------------------ *)
\* sample levels and pan positions passed to the stage: silence, half and
\* full scale of both signs; hard and half left and right, the centre,
\* and the values around the 0.01 threshold
PanLevels == {-FULL_SCALE, -(FULL_SCALE \div 2), 0, FULL_SCALE \div 2, FULL_SCALE}
PanValues == {-PARAM_UNIT, -(PARAM_UNIT \div 2), -PAN_MIN - 1, -PAN_MIN \div 2, 0,
              PAN_MIN \div 2, PAN_MIN, PAN_MIN + 1, PARAM_UNIT \div 2, PARAM_UNIT}

\* if abs(pan) > 0.01: ... on a one-frame block c
PanStep(c, panv) ==
    /\ mainpc = "boot"
    /\ probe' = [stage |-> "pan", c |-> c, pan |-> panv, ret |-> PanStage(c, panv)]
    /\ last' = "pan"
    /\ UNCHANGED <<engine, out, raised, cb, mainpc, blocks, seekReq, seekOk,
                   used, chunk, aside>>

(* ------------------------------------------------------------------ *)
(* Specifications                                                     *)
(* ------------------------------------------------------------------ *)
MouseXs == 0..(BAR_X + BAR_W + 1)
MouseYs == 0..(BAR_Y + BAR_H)

\* The effect chain on a file with sound: whole callbacks, the hotkeys and
\* the writers of the effect parameters.
NextDsp ==
    \/ Start
    \/ Cb
    \/ Space
    \/ ResetHotkey
    \/ \E x \in {0, 20000} : SetEchoMix(x)
    \/ \E x \in {0, 1000} : SetPan(x)
    \/ \E x \in {500, 1000} : SetCutoff(x)
    \/ \E x \in {0, 2000} : SetDist(x)
SpecDsp == InitWith(Tone) /\ [][NextDsp]_vars

\* The transport on a silent file: whole callbacks, seeks, pause and the
\* writers of pitch, speed and direction.
NextTransport ==
    \/ Start
    \/ Cb
    \/ Space
    \/ \E mx \in MouseXs, my \in MouseYs : Seek(mx, my)
    \/ \E x \in {3, 5} : SetPitch(x)
    \/ \E x \in {2, 3} : SetSpeedMult(x)
    \/ \E x \in BOOLEAN : SetReverse(x)
SpecTransport == InitWith(Silence) /\ [][NextTransport]_vars

\* The two threads line by line on a silent file: the lines of _cb, seeks,
\* pause and the writer of one effect parameter.
NextRace ==
    \/ Start
    \/ CbEnter
    \/ CbReadParam
    \/ CbResample
    \/ CbPosLoad
    \/ CbPosStore
    \/ CbDspStep
    \/ Space
    \/ \E mx \in MouseXs, my \in MouseYs : Seek(mx, my)
    \/ \E x \in {0, 500} : SetDist(x)
SpecRace == InitWith(Silence) /\ [][NextRace]_vars

\* The audio thread line by line while the main thread pauses, resumes and
\* draws the waveform.
NextVis ==
    \/ Start
    \/ CbEnter
    \/ CbReadParam
    \/ CbResample
    \/ CbPosLoad
    \/ CbPosStore
    \/ CbDspStep
    \/ Space
    \/ DrawRead
    \/ DrawDone
SpecVis == InitWith(Tone) /\ [][NextVis]_vars

\* what the objects store after three different gestures of the player
Gestures ==
    { [volume |-> 300, pitch |-> 8, cutoff |-> 500, echo_mix |-> 500,
       dist |-> 500, reverse |-> TRUE, pan |-> -500, speed_mult |-> 8],
      [volume |-> 1000, pitch |-> 2, cutoff |-> 1000, echo_mix |-> 0,
       dist |-> 1000, reverse |-> FALSE, pan |-> 500, speed_mult |-> 4],
      [volume |-> 700, pitch |-> 4, cutoff |-> 200, echo_mix |-> 1000,
       dist |-> 0, reverse |-> TRUE, pan |-> 0, speed_mult |-> 12] }

\* The main thread from engine.start() to engine.stop() on a silent file:
\* the hotkeys, a seek, the objects' updates, whole callbacks.
NextMain ==
    \/ Start
    \/ Cb
    \/ Space
    \/ ResetHotkey
    \/ Quit
    \/ Stop
    \/ \E mx \in {BAR_X + BAR_W - 1} : Seek(mx, BAR_Y)
    \/ \E w \in Gestures : ObjectsUpdate(w)
SpecMain == InitWith(Silence) /\ [][NextMain]_vars

\* The dry path on a file with sound: whole callbacks from seek positions,
\* with the writers of volume, echo mix and cutoff.
NextSource ==
    \/ Start
    \/ Cb
    \/ \E mx \in {BAR_X, BAR_X + 1} : Seek(mx, BAR_Y)
    \/ SetVolume(PARAM_UNIT)
    \/ \E x \in {0, 500} : SetEchoMix(x)
    \/ \E x \in {500, 1000} : SetCutoff(x)
SpecSource == InitWith(Tone) /\ [][NextSource]_vars

\* values a writer of the open parameter surface may store: every stage
\* engaged, the volume, the echo mix, the distortion, the pitch and the
\* speed beyond their ranges on either side
WildWrites ==
    { [volume |-> 5 * PARAM_UNIT, pitch |-> 2 * RATE_UNIT, cutoff |-> PARAM_UNIT \div 2,
       echo_mix |-> 20 * PARAM_UNIT, dist |-> 2 * PARAM_UNIT, reverse |-> TRUE,
       pan |-> PARAM_UNIT, speed_mult |-> RATE_UNIT],
      [volume |-> -PARAM_UNIT, pitch |-> 4 * PITCH_MAX, cutoff |-> 0,
       echo_mix |-> PARAM_UNIT, dist |-> 0, reverse |-> FALSE,
       pan |-> -2 * PARAM_UNIT, speed_mult |-> 4 * SPEED_MAX],
      [volume |-> PARAM_UNIT, pitch |-> 0, cutoff |-> PARAM_UNIT,
       echo_mix |-> 0, dist |-> 0, reverse |-> TRUE,
       pan |-> 0, speed_mult |-> -RATE_UNIT] }

\* A silent file under every stage: whole callbacks, pause, the R hotkey,
\* the gestures of the player and writers that store values out of range.
NextSilent ==
    \/ Start
    \/ Cb
    \/ Space
    \/ ResetHotkey
    \/ \E w \in Gestures \cup WildWrites : ObjectsUpdate(w)
SpecSilent == InitWith(Silence) /\ [][NextSilent]_vars

\* Any file the picker can return, loaded, started and played: whole
\* callbacks, pause, seeks and the writers of pitch and direction.
InitLoad == \E d \in {NoFrames, Silence, Tone} : InitWith(d)
NextLoad ==
    \/ Start
    \/ Cb
    \/ Space
    \/ \E mx \in MouseXs, my \in MouseYs : Seek(mx, my)
    \/ SetPitch(3)
    \/ SetReverse(TRUE)
SpecLoad == InitLoad /\ [][NextLoad]_vars

\* The echo stage on its own: blocks of one frame and of BLOCK frames,
\* silent or at full scale, with the mix at the threshold or at 0.5.
NextEcho ==
    \E n \in {1, BLOCK}, f \in {ZeroFrame, UnitFrame}, mix \in {MIX_MIN, PARAM_UNIT \div 2} :
        EchoStep(Flat(f, n), mix)
SpecEcho == InitWith(Silence) /\ [][NextEcho]_vars

\* The echo stage on its own with blocks one frame longer than the first
\* tap, so that a block reaches its own tap range.
NextEchoLong ==
    \E f \in {ZeroFrame, UnitFrame}, mix \in {MIX_MIN, PARAM_UNIT \div 2} :
        EchoStep(Flat(f, D1_LEN + 1), mix)
SpecEchoLong == InitWith(Silence) /\ [][NextEchoLong]_vars

\* The ring on its own: one write of frames that all differ, at any write
\* position, and reads of every length at every start.
NextRing ==
    \/ \E wp \in 0..(BufLen - 1) :
          RingWriteStep(wp, [i \in 1..BufLen |-> <<i, -i>>])
    \/ \E start \in 0..(BufLen - 1), n \in 0..BufLen : RingReadStep(start, n)
SpecRing == InitWith(Silence) /\ [][NextRing]_vars

\* The filter stage on its own: full-scale and silent blocks, the cutoff
\* moving freely between calls.
NextFilter ==
    \E f \in {ZeroFrame, UnitFrame}, fc \in FilterCutoffs :
        FilterStep(Flat(f, BLOCK), fc)
SpecFilter == InitWith(Silence) /\ [][NextFilter]_vars

\* The pan stage on its own, one frame at a time.
NextPan ==
    \E l \in PanLevels, r \in PanLevels, panv \in PanValues :
        PanStep(<<<<l, r>>>>, panv)
SpecPan == InitWith(Silence) /\ [][NextPan]_vars

(* ------------------------------------------------------------------ *)
(* Properties                                                         *)
(* ------------------------------------------------------------------ *)
InUnit(x) == -FULL_SCALE <= x /\ x <= FULL_SCALE
InFile(x) == 0 <= x /\ x < Len(data) * POS_UNIT
BlockDone == cb.pc = "idle" /\ cb.reads = OneRead

\* C1: every sample _cb writes to the output buffer lies in [-1, 1], after
\* any earlier blocks and for every combination of parameter values.
C1_OutputInRange ==
    \A i \in 1..Len(out) : InUnit(out[i][1]) /\ InUnit(out[i][2])

\* C2: a call of _cb that finds playing false writes an all-zero block and
\* leaves pos as it was, however many paused calls follow each other.
C2_PausedBlockSilent ==
    [][(blocks' = blocks + 1 /\ ~playing)
          => (out' = ZeroBlock(Frames) /\ pos' = pos)]_vars
\* a paused call has just zeroed the buffer, after a played block that
\* moved pos and left sound in vis
C2_PausedBlockSeen ==
    /\ last = "cb" /\ ~playing /\ blocks >= 2
    /\ pos # 0
    /\ vis # ZeroBlock(Frames)
    /\ out = ZeroBlock(Frames)

\* C3: 0 <= pos < N in every reachable state, after every rendered block at
\* every rate and after every seek.
C3_PosInRange == InFile(pos)

\* C4: a seek always leaves pos in [0, N): for every click the seek bar
\* accepts, pos = frac * N is at least 0 and below N, never N.
C4_SeekInRange == last = "seek" => InFile(pos)
\* the rightmost pixel of the bar was clicked after a block had played
C4_SeekAtRightEdge ==
    /\ last = "seek" /\ blocks > 0
    /\ pos = SeekPos(BAR_X + BAR_W - 1, Len(data))
    /\ pos > 0

\* C5: a seek stored at any moment, also while a block is being rendered,
\* takes effect at the next block boundary: the first block that starts
\* after it reads its samples from the seek position.
C5_SeekTakesEffect == seekOk

\* C6: one call of _cb reads each control parameter once, at block entry,
\* and every stage of the block works with the value read then, whatever
\* the main thread stores while the block is rendered.
C6_SnapshotUsed ==
    /\ \A f \in ParamNames : cb.reads[f] <= 1
    /\ (cb.pc \in {"L102", "L108", "L108s", "L110"} => cb.reads = OneRead)
    /\ (BlockDone => used = [p |-> cb.p, spd |-> cb.spd, v |-> cb.v,
                             fc |-> cb.fc, em |-> cb.em, di |-> cb.di,
                             pan |-> cb.pan])
\* a block has just finished with the dist it read at entry, and self.dist
\* was stored to while it was rendered
C6_WrittenMidBlock ==
    /\ last = "cb" /\ BlockDone
    /\ used.di = cb.di
    /\ dist # cb.di

\* C7: the values that reach the pipeline are clamped to the documented
\* ranges whatever a writer stored: pitch in [0.25, 4], speed in [0.25, 3],
\* cutoff, echo mix and distortion in [0, 1], pan in [-1, 1].
C7_ClampedAtUse ==
    BlockDone =>
        /\ PITCH_MIN <= used.p /\ used.p <= PITCH_MAX
        /\ SPEED_MIN <= used.spd /\ used.spd <= SPEED_MAX
        /\ 0 <= used.fc /\ used.fc <= PARAM_UNIT
        /\ 0 <= used.em /\ used.em <= PARAM_UNIT
        /\ 0 <= used.di /\ used.di <= PARAM_UNIT
        /\ -PARAM_UNIT <= used.pan /\ used.pan <= PARAM_UNIT

\* C8: after the R hotkey the echo buffer is all zero and the filter state
\* (per-channel memory, cached coefficients) is cleared.
C8_ResetClearsState ==
    last = "reset" =>
        /\ echo_buf = ZeroBlock(BufLen)
        /\ sos = None /\ zi_l = None /\ zi_r = None
        /\ last_norm = NO_NORM

\* C9: when the reset loop of the R hotkey completes, volume is 0.7, pitch
\* 1.0, cutoff 1.0, echo_mix 0.0, dist 0.0, reverse False, pan 0.0 and
\* speed_mult 1.0, from any prior state, and playing and pos are unchanged.
C9_ResetDefaults ==
    [][last' = "reset"
          => /\ volume' = 700 /\ pitch' = RATE_UNIT /\ cutoff' = PARAM_UNIT
             /\ echo_mix' = 0 /\ dist' = 0 /\ reverse' = FALSE /\ pan' = 0
             /\ speed_mult' = RATE_UNIT
             /\ playing' = playing /\ pos' = pos]_vars
\* a reset while paused, after a block rendered with the values of a
\* gesture had moved pos
C9_ResetAfterGesture ==
    /\ last = "reset" /\ ~playing
    /\ pos # 0
    /\ used.v = 300 /\ used.em = 500 /\ used.pan = -500
    /\ volume = 700 /\ echo_mix = 0 /\ pan = 0

LifecycleStep == <<Lifecycle, Lifecycle'>>
Stays == {<<"Stopped", "Stopped">>, <<"Playing", "Playing">>, <<"Paused", "Paused">>}
StatedMoves ==
    {<<"Stopped", "Playing">>, <<"Playing", "Paused">>, <<"Paused", "Playing">>,
     <<"Paused", "Stopped">>}

\* C10 as stated: the only lifecycle transitions are Stopped -> Playing,
\* Playing <-> Paused and Paused -> Stopped.
C10_StatedTransitions == [][(LifecycleStep \in Stays \cup StatedMoves)]_vars

\* C10: the only lifecycle transitions are Stopped -> Playing (start),
\* Playing <-> Paused (the flag toggled), Paused -> Stopped and
\* Playing -> Stopped (stop, whatever the flag).
C10_LifecycleTransitions ==
    [][(LifecycleStep \in Stays \cup StatedMoves \cup {<<"Playing", "Stopped">>})]_vars
\* the stream was stopped and closed while the flag said playing
C10_StoppedWhilePlaying ==
    /\ last = "stop"
    /\ stream = "closed"
    /\ playing
    /\ blocks > 0

\* a whole callback that plays is taken
PlayedStep == blocks' = blocks + 1 /\ playing
\* the parameter values of the identity path
IdentityParams ==
    /\ pitch = RATE_UNIT /\ speed_mult = RATE_UNIT /\ reverse = FALSE
    /\ cutoff = PARAM_UNIT /\ dist = 0 /\ echo_mix = 0 /\ pan = 0
    /\ volume = PARAM_UNIT
\* data[(pos + i) mod N] for i in 0..frames-1, pos taken down to a frame
SourceAt(posv) ==
    [i \in 1..Frames |-> data[(((posv \div POS_UNIT) + i - 1) % Len(data)) + 1]]

\* C11 as stated: on the identity path the output block is
\* data[(pos + i) mod N], for every starting pos and every history.
C11_IdentityAnyPos ==
    [][(PlayedStep /\ IdentityParams) => out' = SourceAt(pos)]_vars

\* C11: on the identity path, from a starting pos that is a whole number
\* of frames, the output block is data[(pos + i) mod N], for every history
\* of the echo buffer and the filter state.
C11_IdentityWholePos ==
    [][(PlayedStep /\ IdentityParams /\ pos % POS_UNIT = 0)
          => out' = SourceAt(pos)]_vars
\* an identity block has just played from a whole position, after the
\* filter and the echo had worked on earlier blocks
C11_IdentityAfterHistory ==
    /\ last = "cb" /\ BlockDone /\ blocks >= 3
    /\ used = [p |-> RATE_UNIT, spd |-> RATE_UNIT, v |-> PARAM_UNIT,
               fc |-> PARAM_UNIT, em |-> 0, di |-> 0, pan |-> 0]
    /\ pos % POS_UNIT = 0
    /\ sos # None
    /\ out # ZeroBlock(Frames)
    /\ out = SourceAt(pos - Frames * POS_UNIT + Len(data) * POS_UNIT)

\* the distance of two positions on the circle of N frames
CircDist(a, b) ==
    LET m == Len(data) * POS_UNIT
        d == (a - b) % m
    IN  Min(d, m - d)

\* C12: a played block with reverse = true and rate magnitude r moves pos
\* to (pos - frames * r) mod N (to the spacing of floats at N), and the
\* result is in [0, N), also when the difference is negative.
C12_ReverseAdvance ==
    [][(PlayedStep /\ reverse)
          => /\ InFile(pos')
             /\ CircDist(pos', pos - Frames * Rate(SnapPitch(pitch),
                                SnapSpeed(speed_mult), FALSE))
                   <= Ulp(Len(data) * POS_UNIT)]_vars

\* an echo call has been made; t0 is the number of samples fed before it
EchoCalled == probe.stage = "echo"
EchoT0 == Len(probe.fed) - Len(probe.c)
\* what the ring kept d samples before sample i of the latest block
KeptBefore(i, d) ==
    IF EchoT0 + i - d >= 1 THEN probe.kept[EchoT0 + i - d] ELSE ZeroFrame

\* C13: a call whose mix is at or below the threshold returns its input
\* unchanged, writes it unscaled at wp and advances wp; a call whose mix is
\* above the threshold then finds in its taps the dry samples passed in
\* D1_LEN and D2_LEN samples earlier.
C13_EchoWarmth ==
    EchoCalled =>
        /\ echo_wp = (probe.wp0 + Len(probe.c)) % BufLen
        /\ (~EchoActive(probe.mix) =>
              /\ probe.ret = probe.c
              /\ RingRead(echo_buf, probe.wp0, Len(probe.c)) = probe.c)
        /\ \A i \in 1..Len(probe.c) :
              /\ (EchoT0 + i - D1_LEN >= 1 /\ probe.dry[EchoT0 + i - D1_LEN])
                    => probe.d1[i] = probe.fed[EchoT0 + i - D1_LEN]
              /\ (EchoT0 + i - D2_LEN >= 1 /\ probe.dry[EchoT0 + i - D2_LEN])
                    => probe.d2[i] = probe.fed[EchoT0 + i - D2_LEN]
\* the mix has just been raised and both taps return full-scale dry
\* samples passed in while it was off, after the write pointer wrapped
C13_WarmTaps ==
    /\ EchoCalled /\ EchoActive(probe.mix)
    /\ Len(probe.fed) > BufLen
    /\ probe.c = Flat(ZeroFrame, Len(probe.c))
    /\ probe.d1[1] = UnitFrame /\ probe.dry[EchoT0 + 1 - D1_LEN]
    /\ probe.d2[1] = UnitFrame /\ probe.dry[EchoT0 + 1 - D2_LEN]
    /\ probe.ret[1] # ZeroFrame

\* C14: a value the ring keeps at a write position is returned by tap 1
\* when the write pointer has advanced by D1_LEN samples and by tap 2 when
\* it has advanced by D2_LEN, for every sequence of block lengths; a unit
\* impulse passed in first with mix 0.5 comes back D1_LEN samples later
\* scaled by 0.5 * 0.55.
C14_DelayExact ==
    EchoCalled =>
        /\ \A i \in 1..Len(probe.c) :
              /\ probe.d1[i] = KeptBefore(i, D1_LEN)
              /\ probe.d2[i] = KeptBefore(i, D2_LEN)
        /\ probe.ret = IF EchoActive(probe.mix)
                       THEN Wet(probe.c, probe.d1, probe.d2, probe.mix)
                       ELSE probe.c
        /\ \A i \in 1..Len(probe.c) :
              (/\ EchoT0 + i = 1 + D1_LEN
               /\ probe.half
               /\ probe.fed = <<UnitFrame>> \o Flat(ZeroFrame, Len(probe.fed) - 1))
                  => probe.ret[i] = <<(FULL_SCALE * FEEDBACK) \div (2 * PARAM_UNIT),
                                      (FULL_SCALE * FEEDBACK) \div (2 * PARAM_UNIT)>>
\* the impulse has just come back in the wet output, D1_LEN samples later
C14_ImpulseBack ==
    /\ EchoCalled /\ probe.half
    /\ probe.fed = <<UnitFrame>> \o Flat(ZeroFrame, D1_LEN)
    /\ probe.ret[Len(probe.ret)] = <<275, 275>>

\* the pan stage has been called; the gains it applied, read off a
\* full-scale frame
PanCalled == probe.stage = "pan"
PanOnUnit == PanCalled /\ probe.c = <<UnitFrame>>
Shrunk(x, y) == (x >= 0 /\ y >= 0 /\ y <= x) \/ (x <= 0 /\ y <= 0 /\ y >= x)

\* C15 as stated: for every pan in [-1, 1] the stage applies
\* leftGain = min(1, 1 - pan) and rightGain = min(1, 1 + pan).
C15_PanGainsAnyPan ==
    PanOnUnit =>
        probe.ret = <<<<Min(FULL_SCALE, FULL_SCALE - probe.pan),
                        Min(FULL_SCALE, FULL_SCALE + probe.pan)>>>>
\* C15: for every pan in [-1, 1] whose size is above 0.01 the stage applies
\* leftGain = min(1, 1 - pan) and rightGain = min(1, 1 + pan), and for the
\* other pans it leaves the block alone; either way both gains are in
\* [0, 1], the dominant channel is passed with gain exactly 1, and pan = +1
\* silences the left channel and keeps the right one.
C15_PanGains ==
    /\ PanOnUnit =>
          probe.ret = IF Abs(probe.pan) > PAN_MIN
                      THEN <<<<Min(FULL_SCALE, FULL_SCALE - probe.pan),
                               Min(FULL_SCALE, FULL_SCALE + probe.pan)>>>>
                      ELSE probe.c
    /\ PanCalled =>
          /\ Shrunk(probe.c[1][1], probe.ret[1][1])
          /\ Shrunk(probe.c[1][2], probe.ret[1][2])
          /\ (probe.pan >= 0 => probe.ret[1][2] = probe.c[1][2])
          /\ (probe.pan <= 0 => probe.ret[1][1] = probe.c[1][1])
          /\ (probe.pan = PARAM_UNIT => probe.ret[1][1] = 0)
\* a full-scale frame panned hard right: left silenced, right untouched
C15_HardRight ==
    PanOnUnit /\ probe.pan = PARAM_UNIT /\ probe.ret = <<<<0, FULL_SCALE>>>>

\* the filter stage has been called; the cutoff of the latest call
FilterCalled == probe.stage = "filter"
FilterCut == probe.trail[Len(probe.trail)]

\* C16: after any sequence of blocks whose cutoff moves back and forth
\* across the bypass threshold, a block that is filtered is filtered with
\* memories zi_l and zi_r that exist and have as many sections as the
\* coefficient cascade, so that sosfilt never raises; a bypassed block
\* drops both memories.
C16_FilterStateWhole ==
    FilterCalled =>
        /\ ~raised
        /\ (~Bypass(FilterCut) =>
              /\ sos # None
              /\ zi_l # None /\ Len(zi_l) = Len(sos)
              /\ zi_r # None /\ Len(zi_r) = Len(sos)
              /\ Len(probe.ret) = Len(probe.c))
        /\ (Bypass(FilterCut) =>
              zi_l = None /\ zi_r = None /\ probe.ret = probe.c)
\* the cutoff went below the threshold, back above it and below again, and
\* the third block was filtered with a fresh memory that now holds signal
C16_BackAndForth ==
    /\ FilterCalled
    /\ probe.trail = <<PARAM_UNIT \div 2, PARAM_UNIT, PARAM_UNIT \div 2>>
    /\ probe.c = Flat(UnitFrame, BLOCK)
    /\ zi_l # None /\ Len(zi_l) = Len(sos)
    /\ zi_l # ZerosZi(Len(sos))

\* the step that ends a played block: lines 110-147 of _cb
BlockEnds == cb.pc = "L110" /\ cb'.pc = "idle"

\* C17: the step that ends a played block leaves in vis the block it wrote
\* to the output, vis changes in no other step, a reader that takes
\* engine.vis gets the block of the latest played call that ended, and the
\* block it holds stays as it was while later blocks are rendered.
C17_VisWhole ==
    [][/\ (BlockEnds => vis' = out')
       /\ (vis' # vis => BlockEnds)
       /\ ((chunk = None /\ chunk' # None) => chunk' = vis /\ vis' = vis)
       /\ ((chunk # None /\ chunk' # None) => chunk' = chunk)]_vars
\* the reader still holds the block it took, and a later played block has
\* ended and replaced vis since
C17_ReaderOneBehind ==
    /\ chunk # None /\ chunk # ZeroBlock(Frames)
    /\ last = "cb" /\ BlockDone
    /\ vis = out /\ vis # chunk

\* a block, a ring or a filter memory without a non-zero value
AllZero(b) == \A i \in 1..Len(b) : b[i] = ZeroFrame

C19_StartedHasFrames ==
    (stream = "running" \/ blocks > 0) => Len(data) > 0

\* C20: no call of _cb raises in any reachable state, and no non-finite
\* value stays in the filter memories after a block.
C20_NothingRaised ==
    /\ ~raised
    /\ \A zi \in {zi_l, zi_r} :
          \A i \in 1..Len(zi) : IsFinite(zi[i][1]) /\ IsFinite(zi[i][2])

\* C21: progress is in [0, 1] in every reachable state, after any blocks
\* and seeks, and it is 0 for an engine without frames.
C21_ProgressInUnit ==
    /\ 0 <= Progress(pos, Len(data))
    /\ Progress(pos, Len(data)) <= POS_UNIT * POS_UNIT
    /\ (Len(data) = 0 => Progress(pos, Len(data)) = 0)
\* blocks were played forwards and backwards after a seek, and the bar
\* stands strictly between its ends
C21_ProgressMidFile ==
    /\ last = "cb" /\ BlockDone /\ blocks >= 2 /\ cb.rev
    /\ Progress(pos, Len(data)) > 0
    /\ Progress(pos, Len(data)) < POS_UNIT * POS_UNIT

\* the size of the rate of the block that has just been played
RateUsed == Rate(used.p, used.spd, FALSE)
Played == last = "cb" /\ BlockDone

\* C22 as stated: the size of the rate is within 0.25 .. 4.0 whatever
\* pitch and speed_mult hold.
C22_RateInPitchBounds ==
    Played =>
        /\ (PITCH_MIN * POS_UNIT) \div RATE_UNIT <= RateUsed
        /\ RateUsed <= (PITCH_MAX * POS_UNIT) \div RATE_UNIT
\* C22: the size of the rate, clamp(pitch, 0.25, 4.0) * clamp(speed, 0.25,
\* 3.0), is within 0.0625 .. 12.0, the products of the two lower and of the
\* two upper bounds, whatever pitch and speed_mult hold.
C22_RateInProductBounds ==
    Played =>
        /\ (PITCH_MIN * SPEED_MIN * POS_UNIT) \div (RATE_UNIT * RATE_UNIT) <= RateUsed
        /\ RateUsed <= (PITCH_MAX * SPEED_MAX * POS_UNIT) \div (RATE_UNIT * RATE_UNIT)
\* a block was played with pitch and speed both stored above their ranges:
\* the rate is 4.0 * 3.0
C22_RateAtTop ==
    /\ Played
    /\ pitch > PITCH_MAX /\ speed_mult > SPEED_MAX
    /\ RateUsed = (PITCH_MAX * SPEED_MAX * POS_UNIT) \div (RATE_UNIT * RATE_UNIT)

\* a call of the echo stage is the step taken
EchoCall == probe' # probe /\ probe'.stage = "echo"

\* C23: the block a call of _echo_process returns is mixed from the two
\* taps as the ring held them when the call began, at (wp - D1_LEN) mod C
\* and (wp - D2_LEN) mod C, also when the block is long enough to be
\* written over its own tap range; with the mix off the block is returned
\* as it came.
C23_TapsBeforeWrite ==
    [][EchoCall =>
          probe'.ret =
             IF EchoActive(probe'.mix)
             THEN Wet(probe'.c,
                      RingRead(echo_buf, (echo_wp - D1_LEN) % BufLen, Len(probe'.c)),
                      RingRead(echo_buf, (echo_wp - D2_LEN) % BufLen, Len(probe'.c)),
                      probe'.mix)
             ELSE probe'.c]_vars
\* a block longer than the first tap was mixed: its last tap sample was
\* read at wp itself, and the call then stored another value there
C23_OwnTapRange ==
    /\ EchoCalled /\ EchoActive(probe.mix)
    /\ Len(probe.c) = D1_LEN + 1
    /\ probe.d1[D1_LEN + 1] # RingRead(echo_buf, probe.wp0, 1)[1]
    /\ probe.ret[D1_LEN + 1] = probe.c[D1_LEN + 1]

\* what the latest echo call left in the ring where it wrote
EchoStored == RingRead(echo_buf, probe.wp0, Len(probe.c))

\* C24: a call whose mix is above the threshold returns, sample by sample,
\* dry + tap1 * mix + tap2 * mix * 0.7 and stores 0.55 times that value at
\* wp.
C24_WetAndFeedback ==
    (EchoCalled /\ EchoActive(probe.mix)) =>
        \A i \in 1..Len(probe.c) :
            /\ probe.ret[i] =
                  FAdd(FAdd(probe.c[i], FScale(probe.d1[i], probe.mix, PARAM_UNIT)),
                       FScale(probe.d2[i], MulDiv(probe.mix, TAP2_GAIN, PARAM_UNIT),
                              PARAM_UNIT))
            /\ EchoStored[i] = FScale(probe.ret[i], FEEDBACK, PARAM_UNIT)
\* a full-scale block was mixed with live taps: what was stored is neither
\* the dry block nor the wet block
C24_ScaledWetStored ==
    /\ EchoCalled /\ EchoActive(probe.mix)
    /\ probe.c[1] = UnitFrame
    /\ probe.d1[1] # ZeroFrame /\ probe.d2[1] # ZeroFrame
    /\ probe.ret[1] # probe.c[1]
    /\ EchoStored[1] # probe.c[1] /\ EchoStored[1] # probe.ret[1]

\* C25: the write pointer is in [0, C) in every state; each call of the echo
\* stage, mixing or not, moves it from wp to (wp + n) mod C for a block of n
\* frames, so that it stands at the number of frames passed so far, mod C.
C25_WritePointer ==
    /\ 0 <= echo_wp /\ echo_wp < BufLen
    /\ EchoCalled =>
          /\ echo_wp = (probe.wp0 + Len(probe.c)) % BufLen
          /\ echo_wp = Len(probe.fed) % BufLen
\* a call with the mix off has just carried the pointer over the end of the
\* ring
C25_PointerWrapped ==
    /\ EchoCalled /\ ~EchoActive(probe.mix)
    /\ Len(probe.fed) > BufLen
    /\ echo_wp < probe.wp0

\* C26 as stated: the capacity of the ring is strictly greater than
\* 3 * max(tap1Len, tap2Len) + blockSize, and tap1Len < tap2Len.
C26_RingLargerThanThreeTaps ==
    /\ Len(echo_buf) > 3 * Max(D1_LEN, D2_LEN) + BLOCK
    /\ D1_LEN < D2_LEN
    /\ Tap1Frames < Tap2Frames
\* C26: the capacity of the ring is exactly 3 * max(tap1Len, tap2Len) +
\* blockSize, which leaves more than the longer tap and one block, and
\* tap1Len < tap2Len.
C26_RingIsThreeTaps ==
    /\ Len(echo_buf) = 3 * Max(D1_LEN, D2_LEN) + BLOCK
    /\ Len(echo_buf) > Max(D1_LEN, D2_LEN) + BLOCK
    /\ D1_LEN < D2_LEN
    /\ Tap1Frames < Tap2Frames
\* the ring has been written once around and still has the size it was
\* built with
C26_RingInUse ==
    /\ EchoCalled /\ Len(probe.fed) > Len(echo_buf)
    /\ Len(echo_buf) = 3 * D2_LEN + BLOCK

\* _ring_read has just been called
RingReadCalled == probe.stage = "ring" /\ last = "read"

\* C27: _ring_read(start, n) returns the n values buf[(start + i) mod C],
\* i = 0 .. n-1, for every start in [0, C) and every n <= C, also across
\* the end of the buffer, and the buffer is as it was before the call.
C27_RingReadExact ==
    RingReadCalled =>
        /\ Len(probe.ret) = probe.n
        /\ \A i \in 0..(probe.n - 1) :
              probe.ret[i + 1] = probe.before[((probe.start + i) % BufLen) + 1]
        /\ echo_buf = probe.before
\* a read of a written ring that crossed the end: its last value comes from
\* the front of the buffer
C27_ReadAcrossEnd ==
    /\ RingReadCalled
    /\ echo_buf # ZeroBlock(BufLen)
    /\ probe.start > 0 /\ probe.start + probe.n > BufLen
    /\ probe.ret[probe.n] = echo_buf[probe.start + probe.n - BufLen]
    /\ probe.ret[1] = echo_buf[probe.start + 1]

\* a call of the filter stage is the step taken, with the cutoff fc on the
\* block c; the block that sosfilt returns for c from the memories zl, zr
FilterCall == probe' # probe /\ probe'.stage = "filter"
FilterCutNow == probe'.trail[Len(probe'.trail)]
AfterBypass == probe.stage = "filter" /\ Bypass(FilterCut)
Filtered(sosv, c, zl, zr) ==
    ColumnStack(SosFilt(sosv, Chan(c, 1), zl, 1, <<>>).y,
                SosFilt(sosv, Chan(c, 2), zr, 1, <<>>).y)

\* C28: a block rendered with cutoff >= 0.97 leaves last_norm at the
\* sentinel and both memories discarded, and the next block rendered with
\* cutoff < 0.97 computes the coefficients for its cutoff and filters both
\* channels from all-zero memories.
C28_BypassInvalidates ==
    [][/\ (FilterCall /\ FilterCutNow >= BYPASS_CUTOFF) =>
             (last_norm' = NO_NORM /\ zi_l' = None /\ zi_r' = None)
       /\ (FilterCall /\ FilterCutNow < BYPASS_CUTOFF /\ AfterBypass) =>
             /\ ~raised'
             /\ sos' = Butter(NormOf(FilterCutNow))
             /\ last_norm' = NormOf(FilterCutNow)
             /\ probe'.ret = Filtered(sos', probe'.c, ZerosZi(Len(sos')),
                                      ZerosZi(Len(sos')))]_vars
\* the filter ran, was bypassed and ran again on a full-scale block: its
\* memory is what a filter started from zero leaves
C28_CleanRestart ==
    /\ FilterCalled /\ last = "filter"
    /\ probe.trail = <<0, PARAM_UNIT, PARAM_UNIT \div 2>>
    /\ probe.c = Flat(UnitFrame, BLOCK)
    /\ sos = Butter(NormOf(PARAM_UNIT \div 2))
    /\ zi_l = SosFilt(sos, Chan(probe.c, 1), ZerosZi(Len(sos)), 1, <<>>).zf
    /\ zi_l # ZerosZi(Len(sos))

\* C29: a filtered block computes the coefficients exactly when there are
\* none yet or norm is more than 0.002 away from last_norm, and otherwise
\* leaves the coefficients and last_norm as they were; either way the block
\* is filtered from the memories of the previous filtered block when their
\* size fits.
C29_RecomputeOnlyOnChange ==
    [][(FilterCall /\ FilterCutNow < BYPASS_CUTOFF) =>
          LET norm == NormOf(FilterCutNow)
              due == sos = None \/ Abs(norm - last_norm) > NORM_EPS
          IN  /\ (due => sos' = Butter(norm) /\ last_norm' = norm)
              /\ (~due => sos' = sos /\ last_norm' = last_norm)
              /\ (zi_l # None /\ Len(zi_l) = Len(sos') /\ Len(zi_r) = Len(sos')) =>
                    /\ probe'.ret = Filtered(sos', probe'.c, zi_l, zi_r)
                    /\ ~raised']_vars
\* two filtered full-scale blocks, the second with a cutoff 0.002 higher:
\* the coefficients of the first are still in use and the memory carries on
C29_CachedKept ==
    /\ FilterCalled /\ last = "filter"
    /\ probe.trail = <<PARAM_UNIT \div 2, PARAM_UNIT \div 2 + 2>>
    /\ probe.c = Flat(UnitFrame, BLOCK)
    /\ NormOf(PARAM_UNIT \div 2 + 2) # NormOf(PARAM_UNIT \div 2)
    /\ sos = Butter(NormOf(PARAM_UNIT \div 2)) /\ last_norm = NormOf(PARAM_UNIT \div 2)
    /\ zi_l # SosFilt(sos, Chan(probe.c, 1), ZerosZi(Len(sos)), 1, <<>>).zf

\* the rate of the block about to be played, and for its sample i (from 0):
\* t = (pos + i * rate) mod N in floats, i0 = floor(t) mod N,
\* i1 = (i0 + 1) mod N, frac = t - floor(t)
RateNow == Rate(SnapPitch(pitch), SnapSpeed(speed_mult), reverse)
LerpT(i) == PyMod(Fl(Fl(i * RateNow) + pos), Len(data) * POS_UNIT)
LerpI0(i) == (LerpT(i) \div POS_UNIT) % Len(data)
LerpI1(i) == (LerpI0(i) + 1) % Len(data)
LerpFrac(i) == LerpT(i) - (LerpT(i) \div POS_UNIT) * POS_UNIT
Lerp(a, b, fr) == FAdd(FScale(a, POS_UNIT - fr, POS_UNIT), FScale(b, fr, POS_UNIT))
\* the stages after the resampler are idle but for the volume
PlainChain == Bypass(cutoff) /\ dist = 0 /\ echo_mix = 0 /\ pan = 0

\* C30: sample i of a played block is lerp(data[i0], data[i1], frac) with
\* t = (pos + i * rate) mod N, i0 = floor(t) mod N, i1 = (i0 + 1) mod N and
\* frac = t - floor(t), for forward and backward rates; both indices are in
\* [0, N), and from the last frame the block interpolates towards frame 0.
C30_ResamplerLerp ==
    [][(PlayedStep /\ Len(data) > 0 /\ PlainChain) =>
          /\ \A i \in 0..(Frames - 1) :
                /\ 0 <= LerpI0(i) /\ LerpI0(i) < Len(data)
                /\ 0 <= LerpI1(i) /\ LerpI1(i) < Len(data)
                /\ (LerpI0(i) = Len(data) - 1 => LerpI1(i) = 0)
          /\ out' = ClipStage(VolumeStage(
                       [k \in 1..Frames |->
                           Lerp(data[LerpI0(k - 1) + 1], data[LerpI1(k - 1) + 1],
                                LerpFrac(k - 1))], SnapVolume(volume)))]_vars
\* a block of the tone has played backwards at pitch 0.75 from a position
\* between two frames: its first sample is none of the frames of the file
C30_BetweenFrames ==
    /\ Played /\ blocks >= 2
    /\ cb.rev /\ used.p = 3
    /\ pos % POS_UNIT # 0
    /\ \A j \in 1..Len(data) : out[1] # FScale(data[j], used.v, PARAM_UNIT)

\* C31: a call of _cb that finds playing false stores nothing in the engine:
\* the echo ring and its write pointer, the filter coefficients, memories
\* and last_norm, and vis keep the values the last played block left, and so
\* do pos, the file, the parameters and the stream; only the output buffer
\* is written.
C31_PausedBlockKeepsEngine ==
    [][(blocks' = blocks + 1 /\ ~playing) => UNCHANGED engine]_vars
\* a paused call has returned after a played block that filled the ring,
\* designed a filter and left sound in vis: all three are still there while
\* the output buffer is silent
C31_PausedAfterSound ==
    /\ last = "cb" /\ ~playing /\ blocks >= 2
    /\ out = ZeroBlock(Frames)
    /\ vis # ZeroBlock(Frames)
    /\ echo_buf # ZeroBlock(BufLen) /\ echo_wp # 0
    /\ sos # None /\ zi_l # None

\* the regions of the call the probe holds: the two tap reads and the write
TapsCalled == probe.stage = "taps"
Tap1Cells == RingCells((probe.wp - Tap1Frames) % RingFrames, probe.n, RingFrames)
Tap2Cells == RingCells((probe.wp - Tap2Frames) % RingFrames, probe.n, RingFrames)
WriteCells == RingCells(probe.wp, probe.n, RingFrames)

\* C32: at every write pointer in [0, C) and for blocks of up to BLOCK
\* frames, the cells of the first tap read, of the second tap read and of
\* the write of one _echo_process call are pairwise disjoint modulo C: no
\* call reads a cell it writes.
C32_TapRegionsDisjoint ==
    TapsCalled =>
        /\ probe.wp \in 0..(RingFrames - 1)
        /\ Tap1Cells \cap WriteCells = {}
        /\ Tap2Cells \cap WriteCells = {}
        /\ Tap1Cells \cap Tap2Cells = {}
\* a call of BLOCK frames whose write runs past the end of the ring and
\* whose taps read one slice each
C32_WriteAcrossEnd ==
    /\ TapsCalled /\ probe.n = BLOCK_SIZE
    /\ probe.wp + probe.n > RingFrames
    /\ 0 \in WriteCells /\ (RingFrames - 1) \in WriteCells
    /\ Cardinality(WriteCells) = BLOCK_SIZE

\* an event has just been taken through the loop; the receivers that took it
EventStep == last' = "event"
Receivers(rt) ==
    (IF rt.seek THEN 1 ELSE 0) + (IF Consumed(rt.offered) THEN 1 ELSE 0)
        + (IF rt.hotkey # "none" THEN 1 ELSE 0) + (IF rt.quit THEN 1 ELSE 0)

\* C33: every event is taken by at most one receiver: the seek, the one
\* object that consumed it, a hotkey or the quit. A left press on the seek
\* bar seeks and is offered to no object; any other event is offered to the
\* objects in list order up to and including the first whose handle returns
\* True; SPACE, R and ESC act only on events no object consumed, and
\* nothing else toggles playing or ends the loop.
C33_EventRouting ==
    [][EventStep =>
        LET rt == routed'
            ev == rt.ev
            off == rt.offered
        IN  /\ Receivers(rt) <= 1
            /\ rt.seek <=> (Down(ev, 1) /\ Collide(ev.mx, ev.my))
            /\ rt.seek => /\ off = <<>>
                          /\ objs' = objs
                          /\ pos' = SeekPos(ev.mx, Len(data))
                          /\ UNCHANGED <<playing, params, mainpc>>
            /\ \A i \in 1..Len(off) :
                  /\ off[i][1] = Objects[i]
                  /\ i < Len(off) => ~off[i][2]
            /\ (~rt.seek /\ ~rt.quit /\ ~Consumed(off)) => Len(off) = Len(Objects)
            /\ rt.hotkey # "none" =>
                  /\ ~Consumed(off) /\ ~rt.seek
                  /\ rt.hotkey = Hotkey(ev)
            /\ (~rt.seek /\ ~rt.quit /\ ~Consumed(off)) => rt.hotkey = Hotkey(ev)
            /\ playing' = (IF rt.hotkey = "space" THEN ~playing ELSE playing)
            /\ mainpc' # mainpc => (rt.hotkey = "escape" \/ rt.quit)
            /\ pos' # pos => rt.seek]_vars
\* a left press over the orb and the speaker standing on it has been taken
\* by the orb, second in the list; the speaker, eighth, was never offered it
C33_FirstTakes ==
    /\ last = "event"
    /\ Down(routed.ev, 1)
    /\ routed.ev.hit = {"GravityOrb", "DraggableSpeaker"}
    /\ routed.offered = <<<<"ElasticString", FALSE>>, <<"GravityOrb", TRUE>>>>
    /\ objs.grab = {"GravityOrb"}
    /\ playing

\* a tick that moves on: update() past its first test
Ticked == last' = "update" /\ gamepc = "run" /\ ~game_over /\ ~paused
Opposite(d) == <<-d[1], -d[2]>>

\* C34: the direction a tick applies is never the reverse of the direction
\* the tick before applied (the direction reset() gives, when the game was
\* restarted in between), whatever direction keys came between the two
\* ticks and whether the game was paused then.
C34_NoReversal == [][Ticked => direction' # Opposite(direction)]_vars
\* between two ticks, with the game paused, a turn was taken and then the
\* key of the reverse direction was refused
C34_ReverseRefused ==
    /\ last = "refused" /\ paused /\ ~game_over
    /\ next_direction \notin {direction, Opposite(direction)}
    /\ score >= 1

\* C35: after __init__, every reset and every update that returned, the
\* food is a cell of the grid and no cell of the snake.
C35_FoodFree ==
    gamepc \in {"run", "exit"} => (food \in Cells /\ ~InBody(food, snake))
\* an update has grown the snake to all cells but one, and the food is on
\* that cell
C35_LastFreeCell ==
    /\ last = "update" /\ gamepc = "run"
    /\ Len(snake) = GRID_WIDTH * GRID_HEIGHT - 1
    /\ ~InBody(food, snake)

\* C36: while game_over holds, update changes nothing, P does not toggle
\* the pause and game_over stays set until R restarts the game; R restarts
\* only a game that is over, and the restart stores the snake, direction,
\* score, paused and game_over of a new game and keeps high_score.
C36_GameOverHolds ==
    [][/\ (game_over /\ last' = "update") =>
              UNCHANGED <<snake, food, score, direction, next_direction,
                          high_score, game_over, paused>>
       /\ (game_over /\ last' # "restart") => (paused' = paused /\ game_over')
       /\ (last' = "restart") =>
              /\ game_over
              /\ snake' = CenterSnake /\ direction' = RIGHT /\ score' = 0
              /\ ~paused' /\ ~game_over'
              /\ high_score' = high_score]_vars
\* a game that was lost with a score has been restarted: the new game
\* starts from the centre with the best score kept
C36_Restarted ==
    /\ last = "restart" /\ high_score >= 2
    /\ score = 0 /\ snake = CenterSnake /\ ~game_over

\* grid neighbours
Neighbours(a, b) == Abs(a[1] - b[1]) + Abs(a[2] - b[2]) = 1
SnakeWellFormed ==
    /\ \A i \in 1..Len(snake) : snake[i] \in Cells
    /\ \A i, j \in 1..Len(snake) : i # j => snake[i] # snake[j]
    /\ \A i \in 1..(Len(snake) - 1) : Neighbours(snake[i], snake[i + 1])
NewHead == <<snake[1][1] + next_direction[1], snake[1][2] + next_direction[2]>>

\* C37: the cells of the snake are pairwise distinct cells of the grid and
\* each is a grid neighbour of the next; a tick whose new head is outside
\* the grid or on a cell of the snake, the tail cell included, sets
\* game_over and leaves the snake where it was.
C37_SnakeShape ==
    /\ SnakeWellFormed
    /\ [][/\ SnakeWellFormed'
          /\ (Ticked /\ (NewHead \notin Cells \/ InBody(NewHead, snake)))
                => (game_over' /\ snake' = snake)]_vars
\* the game ended on a tick that took the head to the cell of the tail
C37_RanIntoTail ==
    /\ last = "update" /\ game_over
    /\ <<snake[1][1] + direction[1], snake[1][2] + direction[2]>> = snake[Len(snake)]

TripMade == probe.stage = "trip"
TripCells == {(probe.wp + i) % BufLen : i \in 0..(Len(probe.d) - 1)}

\* C39: after _ring_write(wp, data), for every wp in [0, C) and every data
\* of n <= C frames, _ring_read(wp, n) returns data, buf[(wp + i) mod C] is
\* data[i] for every i < n and every other cell holds what it held before,
\* also when the write runs past the end of the buffer.
C39_RingRoundTrip ==
    TripMade =>
        /\ probe.ret = probe.d
        /\ \A i \in 0..(Len(probe.d) - 1) :
              echo_buf[((probe.wp + i) % BufLen) + 1] = probe.d[i + 1]
        /\ \A j \in 0..(BufLen - 1) :
              j \notin TripCells => echo_buf[j + 1] = probe.before[j + 1]
        /\ Len(echo_buf) = BufLen
\* a write past the end of a ring that held an earlier write: it came back
\* whole, and frames of the earlier write are still in the ring
C39_SecondWriteWrapped ==
    /\ TripMade
    /\ probe.wp + Len(probe.d) > BufLen /\ Len(probe.d) >= 2
    /\ probe.before # ZeroBlock(BufLen)
    /\ probe.ret = probe.d
    /\ echo_buf[1] = probe.d[BufLen - probe.wp + 1]
    /\ \E j \in 0..(BufLen - 1) : j \notin TripCells /\ echo_buf[j + 1] # ZeroFrame

====
